---- MODULE Spec2Model ----
(***************************************************************************)
(* A model of the midi-player repository: the byte cursor and VLQ reader   *)
(* (common/reader.hpp), the SMF decoder (midi/smf.cpp), the tempo map and  *)
(* tick-to-seconds conversion (midi/tempo.cpp), the schedule builder and   *)
(* the real-time callback (audio/player.cpp).                              *)
(*                                                                         *)
(* Number representation.  TLC integers are 32-bit signed, so a C++        *)
(* std::uint32_t is kept as a record [hi, lo] of two 16-bit halves         *)
(* (value = hi * 65536 + lo) and added modulo 2^32.  std::size_t is taken  *)
(* to be 64 bits wide: off + n never wraps for the buffers modelled.       *)
(* A double is kept exactly: a finite time is an integer number of         *)
(* (microseconds / ppqn), and the IEEE results of dividing by ppqn = 0     *)
(* (+infinity, NaN) are kept as their own kinds.                           *)
(***************************************************************************)
EXTENDS Integers, Sequences, FiniteSets, TLC

VARIABLES
  \* ---- parse_smf (midi/smf.cpp) ----
  file,      \* the input byte buffer                 (parse_smf: bytes)
  pc,        \* position of the control flow in parse_smf
  r_off,     \* Bytes r: r.off, the outer cursor
  header,    \* SMFHeader header
  trk,       \* loop variable i of parse_smf
  tr,        \* walk_one_track: Bytes tr, tr.data
  tr_off,    \* walk_one_track: tr.off
  tick,      \* walk_one_track: std::uint32_t tick
  running,   \* walk_one_track: std::uint8_t running
  notes,     \* std::vector<NoteEv> notes
  tempi,     \* std::vector<TempoEv> tempi
  song,      \* the returned Song: <<>> while none, <<s>> once returned
  err,       \* what() of the exception thrown, "" while none
  iters,     \* history: one record per iteration of the track walk
  chunks,    \* history: one record per track chunk entered
  \* ---- read_vlq on its own (common/reader.hpp) ----
  vdata,     \* the buffer handed to read_vlq
  vres,      \* <<>> before the call, <<result>> after it
  \* ---- build_tempo_map, build_schedule (midi/tempo.cpp, audio/player.cpp) ----
  songIn,    \* the Song handed to build_tempo_map and to audio::play
  tempoMap,  \* <<>> before build_tempo_map, <<TempoMap>> after it
  schedRuns, \* the results of two calls of build_schedule: <<>> or <<evs>> each
  convs,     \* history: the tick-to-seconds conversions made so far
  \* ---- audio::play and data_callback (audio/player.cpp) ----
  ppc,         \* position of the control flow in play
  perr,        \* what() of the exception play threw, "" while none
  synth,       \* the tsf handle: "none", "loaded" or "closed"
  device,      \* the ma_device: "none", "inited", "started", "stopped", "uninit"
  events,      \* PlaybackState::events
  nextIndex,   \* PlaybackState::nextIndex
  timeSec,     \* PlaybackState::timeSec, counted in frames (timeSec * sampleRate)
  endTimeSec,  \* PlaybackState::endTimeSec
  calls,       \* history: the tsf_note_on / tsf_note_off calls made so far
  cbs,         \* history: one record per data_callback run
  elapsed,     \* play: the local elapsed of the poll loop, in milliseconds
  teardown,    \* history: the calls that stop or release the device and the synth
  accesses     \* history: the accesses to PlaybackState while the device runs

parseVars == <<file, pc, r_off, header, trk, tr, tr_off, tick, running,
               notes, tempi, song, err, iters, chunks>>
vlqVars == <<vdata, vres>>
schedVars == <<songIn, tempoMap, schedRuns, convs>>
playVars == <<ppc, perr, synth, device, events, nextIndex, timeSec, endTimeSec,
              calls, cbs, elapsed, teardown, accesses>>
vars == <<parseVars, vlqVars, schedVars, playVars>>

(***************************************************************************)
(* Bounds of the model                                                     *)
(***************************************************************************)
MaxEvents == 2      \* event fragments per generated track
MaxVlqBytes == 5    \* length of the free byte strings handed to read_vlq
MaxSchedNotes == 3  \* note events of the songs handed to build_schedule
MaxPlayNotes == 2   \* note events of the songs handed to play
MaxCallbacks == 3   \* data_callback runs of one playback
ElapsedCap == 18000 \* milliseconds of wall clock told apart (more is kept as this)
MaxTempoEvents == 2 \* tempo events of the songs handed to build_tempo_map alone
MaxConversions == 2 \* tick-to-seconds conversions made with one TempoMap

(***************************************************************************)
(* Sequences and 32-bit values                                             *)
(***************************************************************************)
SubSeqFrom(s, from, len) == [k \in 1..len |-> s[from + k]]

RECURSIVE Concat(_)
Concat(ss) == IF ss = <<>> THEN <<>> ELSE Head(ss) \o Concat(Tail(ss))

RECURSIVE SeqsUpTo(_, _)
SeqsUpTo(S, n) ==
  IF n = 0 THEN {<<>>}
  ELSE LET shorter == SeqsUpTo(S, n - 1)
       IN  shorter \cup {Append(s, x) : s \in {t \in shorter : Len(t) = n - 1}, x \in S}

U32(n) == [hi |-> n \div 65536, lo |-> n % 65536]

U32Add(a, b) ==
  LET lo == a.lo + b.lo
      hi == a.hi + b.hi + (lo \div 65536)
  IN  [hi |-> hi % 65536, lo |-> lo % 65536]

(***************************************************************************)
(* Bytes (common/reader.hpp).  A read returns [ok, val, off]; ok = FALSE   *)
(* stands for the std::runtime_error the read throws.                      *)
(***************************************************************************)
EofU8 == "EOF while reading u8"
EofBe16 == "EOF while reading be16"
EofBe32 == "EOF while reading be32"
EofSkip == "EOF while skipping bytes"

u8(data, off) ==
  IF off + 1 > Len(data)
    THEN [ok |-> FALSE, val |-> 0, off |-> off, err |-> EofU8]
    ELSE [ok |-> TRUE, val |-> data[off + 1], off |-> off + 1, err |-> ""]

\* be16 with the two bytes swapped (low byte first)
be16_little_endian(data, off) ==
  IF off + 2 > Len(data)
    THEN [ok |-> FALSE, val |-> 0, off |-> off, err |-> EofBe16]
    ELSE [ok |-> TRUE, val |-> data[off + 2] * 256 + data[off + 1],
          off |-> off + 2, err |-> ""]

be16(data, off) ==
  IF off + 2 > Len(data)
    THEN [ok |-> FALSE, val |-> 0, off |-> off, err |-> EofBe16]
    ELSE [ok |-> TRUE, val |-> data[off + 1] * 256 + data[off + 2],
          off |-> off + 2, err |-> ""]

be32(data, off) ==
  IF off + 4 > Len(data)
    THEN [ok |-> FALSE, val |-> U32(0), off |-> off, err |-> EofBe32]
    ELSE [ok |-> TRUE,
          val |-> [hi |-> data[off + 1] * 256 + data[off + 2],
                   lo |-> data[off + 3] * 256 + data[off + 4]],
          off |-> off + 4, err |-> ""]

\* a skip that stops at the end of the data when it cannot advance by n
skip_to_end(data, off, n) ==
  IF off + n > Len(data)
    THEN [ok |-> FALSE, off |-> Len(data), err |-> EofSkip]
    ELSE [ok |-> TRUE, off |-> off + n, err |-> ""]

\* skip(n) with n a plain number (a VLQ value, below 2^28)
skip(data, off, n) ==
  IF off + n > Len(data)
    THEN [ok |-> FALSE, off |-> off, err |-> EofSkip]
    ELSE [ok |-> TRUE, off |-> off + n, err |-> ""]

\* off + n > size for a 32-bit n, computed in std::size_t: every buffer of the
\* model is shorter than 65536 bytes, so any n with a nonzero high half exceeds it
ExceedsSize(off, n, size) == n.hi > 0 \/ off + n.lo > size

\* skip(n) with n a 32-bit value (the chunk length)
skip32(data, off, n) ==
  IF ExceedsSize(off, n, Len(data))
    THEN [ok |-> FALSE, off |-> off, err |-> EofSkip]
    ELSE [ok |-> TRUE, off |-> off + n.lo, err |-> ""]

(***************************************************************************)
(* read_vlq (common/reader.hpp): at most 4 bytes, 7 bits each              *)
(***************************************************************************)
VlqMaxBytes == 4

\* v = (v << 7) | (b & 0x7F): v is below 2^21 before the last shift, so the
\* 32-bit shift never drops a bit
RECURSIVE vlq_loop(_, _, _, _)
vlq_loop(data, off, v, i) ==
  IF i >= VlqMaxBytes
    THEN [ok |-> TRUE, val |-> v, off |-> off, err |-> ""]
    ELSE LET b == u8(data, off)
         IN  IF ~b.ok
               THEN [ok |-> FALSE, val |-> v, off |-> b.off, err |-> b.err]
               ELSE LET v2 == v * 128 + (b.val % 128)
                    IN  IF b.val < 128
                          THEN [ok |-> TRUE, val |-> v2, off |-> b.off, err |-> ""]
                          ELSE vlq_loop(data, b.off, v2, i + 1)

\* read_vlq without the 4-byte cap: reads on while the continuation bit is set
RECURSIVE vlq_uncapped(_, _, _)
vlq_uncapped(data, off, v) ==
  LET b == u8(data, off)
  IN  IF ~b.ok
        THEN [ok |-> FALSE, val |-> v, off |-> b.off, err |-> b.err]
        ELSE IF b.val < 128
          THEN [ok |-> TRUE, val |-> (v % 2097152) * 128 + b.val, off |-> b.off,
                err |-> ""]
          ELSE vlq_uncapped(data, b.off, (v % 2097152) * 128 + (b.val % 128))

read_vlq_uncapped(data, off) == vlq_uncapped(data, off, 0)

read_vlq(data, off) == vlq_loop(data, off, 0, 0)

(***************************************************************************)
(* parse_header (midi/smf.cpp)                                             *)
(***************************************************************************)
MThd == [hi |-> 19796, lo |-> 26724]    \* 0x4d546864
MTrk == [hi |-> 19796, lo |-> 29291]    \* 0x4D54726B
HeaderLength == 6
DefaultPpqn == 480    \* SMFHeader::ppqn default member initialiser

ErrNotMidi == "Not a MIDI file (missing 'MThd')"
ErrHeaderLength == "Header chunk length must be 6"
ErrNoMTrk == "Missing 'MTrk' chunk"
ErrSlice == "Track slice out of range"
ErrRunning == "Running status used before any status"
ErrStatus == "Unsupported or malformed status byte"

\* SMFHeader h{}: the default member initialisers of midi/events.hpp
DefaultHeader ==
  [format |-> 0, nTracks |-> 0, division |-> 0, isPPQN |-> TRUE,
   ppqn |-> DefaultPpqn, smpte_fps |-> 0, smpte_sub |-> 0]

\* the fields derived from the raw division field
header_of(format, nTracks, division) ==
  IF division < 32768
    THEN [DefaultHeader EXCEPT !.format = format, !.nTracks = nTracks,
                               !.division = division, !.isPPQN = TRUE,
                               !.ppqn = division % 32768]
    ELSE [DefaultHeader EXCEPT !.format = format, !.nTracks = nTracks,
                               !.division = division, !.isPPQN = FALSE,
                               !.smpte_fps = 256 - ((division \div 256) % 256),
                               !.smpte_sub = division % 256]

\* parse_header without the check of the chunk length
parse_header_any_length(data, off) ==
  LET id == be32(data, off)
      length == be32(data, id.off)
      format == be16(data, length.off)
      nTracks == be16(data, format.off)
      division == be16(data, nTracks.off)
      Throw(msg) == [ok |-> FALSE, err |-> msg, off |-> off, h |-> DefaultHeader]
  IN  IF ~id.ok THEN Throw(id.err)
      ELSE IF id.val # MThd THEN Throw(ErrNotMidi)
      ELSE IF ~length.ok THEN Throw(length.err)
      ELSE IF ~format.ok THEN Throw(format.err)
      ELSE IF ~nTracks.ok THEN Throw(nTracks.err)
      ELSE IF ~division.ok THEN Throw(division.err)
      ELSE [ok |-> TRUE, err |-> "", off |-> division.off,
            h |-> header_of(format.val, nTracks.val, division.val)]

parse_header(data, off) ==
  LET id == be32(data, off)
      length == be32(data, id.off)
      format == be16(data, length.off)
      nTracks == be16(data, format.off)
      division == be16(data, nTracks.off)
      Throw(msg) == [ok |-> FALSE, err |-> msg, off |-> off, h |-> DefaultHeader]
  IN  IF ~id.ok THEN Throw(id.err)
      ELSE IF id.val # MThd THEN Throw(ErrNotMidi)
      ELSE IF ~length.ok THEN Throw(length.err)
      ELSE IF length.val # U32(HeaderLength) THEN Throw(ErrHeaderLength)
      ELSE IF ~format.ok THEN Throw(format.err)
      ELSE IF ~nTracks.ok THEN Throw(nTracks.err)
      ELSE IF ~division.ok THEN Throw(division.err)
      ELSE [ok |-> TRUE, err |-> "", off |-> division.off,
            h |-> header_of(format.val, nTracks.val, division.val)]

(***************************************************************************)
(* walk_one_track (midi/smf.cpp)                                           *)
(***************************************************************************)
\* make_slice: the bytes [start, start + len) of the file
make_slice(data, start, len) ==
  IF ExceedsSize(start, len, Len(data))
    THEN [ok |-> FALSE, err |-> ErrSlice, data |-> <<>>]
    ELSE [ok |-> TRUE, err |-> "", data |-> SubSeqFrom(data, start, len.lo)]

\* the chunk header: magic, length, the slice, and the outer skip
track_begin(data, off) ==
  LET id == be32(data, off)
      len == be32(data, id.off)
      slice == make_slice(data, len.off, len.val)
      skipped == skip32(data, len.off, len.val)
      Throw(msg) == [ok |-> FALSE, err |-> msg, off |-> off, data |-> <<>>]
  IN  IF ~id.ok THEN Throw(id.err)
      ELSE IF id.val # MTrk THEN Throw(ErrNoMTrk)
      ELSE IF ~len.ok THEN Throw(len.err)
      ELSE IF ~slice.ok THEN Throw(slice.err)
      ELSE IF ~skipped.ok THEN Throw(skipped.err)
      ELSE [ok |-> TRUE, err |-> "", off |-> skipped.off, data |-> slice.data]

\* the value of `running` that stands for "no status seen yet"
NoRunning == 0

\* running status that a meta or SysEx status byte cancels
running_after_cancelling(rs, first) ==
  IF first >= 128 THEN (IF first < 240 THEN first ELSE NoRunning) ELSE rs

\* "only channel messages set running status": (status & 0xF0) < 0xF0
running_after(rs, first) ==
  IF first >= 128 /\ (first \div 16) * 16 < 240 THEN first ELSE rs

\* note_events without the velocity test: every 0x9n message is a NoteOn
note_events_no_vel0(type, tk, ch, d1, d2) ==
  IF type = 144
    THEN <<[tick |-> tk, ch |-> ch, note |-> d1, vel |-> d2, type |-> "NoteOn"]>>
  ELSE IF type = 128
    THEN <<[tick |-> tk, ch |-> ch, note |-> d1, vel |-> d2, type |-> "NoteOff"]>>
  ELSE <<>>

\* the branch of the two-data-byte channel messages on type and d2
note_events(type, tk, ch, d1, d2) ==
  IF type = 144 /\ d2 # 0
    THEN <<[tick |-> tk, ch |-> ch, note |-> d1, vel |-> d2, type |-> "NoteOn"]>>
  ELSE IF type = 128 \/ (type = 144 /\ d2 = 0)
    THEN <<[tick |-> tk, ch |-> ch, note |-> d1, vel |-> d2, type |-> "NoteOff"]>>
  ELSE <<>>

\* walk_iteration that takes every 0x51 meta event for a tempo, whatever its
\* declared length
walk_iteration_tempo_any_length(data, off, tk, rs) ==
  LET delta == read_vlq(data, off)
      tick1 == U32Add(tk, U32(delta.val))
      f == u8(data, delta.off)
      first == f.val
      isStatus == first >= 128
      running1 == running_after(rs, first)
      status == IF isStatus THEN first ELSE rs
      haveData1 == ~isStatus
      type == (status \div 16) * 16
      ch == status % 16
      d1 == IF haveData1 THEN [ok |-> TRUE, val |-> first, off |-> f.off, err |-> ""]
                         ELSE u8(data, f.off)
      d2 == u8(data, d1.off)
      metaType == u8(data, f.off)
      mlen == read_vlq(data, metaType.off)
      mskip == skip(data, mlen.off, mlen.val)
      t0 == u8(data, mlen.off)
      t1 == u8(data, t0.off)
      t2 == u8(data, t1.off)
      slen == read_vlq(data, f.off)
      sskip == skip(data, slen.off, slen.val)
      Out(ok, msg, o, ns, ts, brk) ==
        [ok |-> ok, err |-> msg, off |-> o, tick |-> tick1,
         running |-> running1, notes |-> ns, tempi |-> ts, brk |-> brk,
         haveFirst |-> TRUE, first |-> first, status |-> status,
         start |-> delta.off, at |-> o]
      Throw(r) == [Out(FALSE, r.err, off, <<>>, <<>>, FALSE) EXCEPT !.at = r.off]
      ThrowAt(msg, o) == [Out(FALSE, msg, off, <<>>, <<>>, FALSE) EXCEPT !.at = o]
      Continue(o, ns, ts) == Out(TRUE, "", o, ns, ts, FALSE)
  IN  IF ~delta.ok THEN
        [ok |-> FALSE, err |-> delta.err, off |-> off, tick |-> tk,
         running |-> rs, notes |-> <<>>, tempi |-> <<>>, brk |-> FALSE,
         haveFirst |-> FALSE, first |-> 0, status |-> 0, start |-> off,
         at |-> delta.off]
      ELSE IF ~f.ok THEN
        [ok |-> FALSE, err |-> f.err, off |-> off, tick |-> tick1,
         running |-> rs, notes |-> <<>>, tempi |-> <<>>, brk |-> FALSE,
         haveFirst |-> FALSE, first |-> 0, status |-> 0, start |-> delta.off,
         at |-> f.off]
      ELSE IF haveData1 /\ rs = NoRunning THEN ThrowAt(ErrRunning, f.off)
      ELSE IF type \in {128, 144, 160, 176, 224} THEN
        IF ~d1.ok THEN Throw(d1)
        ELSE IF ~d2.ok THEN Throw(d2)
        ELSE Continue(d2.off, note_events(type, tick1, ch, d1.val, d2.val), <<>>)
      ELSE IF type \in {192, 208} THEN
        IF ~d1.ok THEN Throw(d1)
        ELSE Continue(d1.off, <<>>, <<>>)
      ELSE IF status = 255 THEN
        IF ~metaType.ok THEN Throw(metaType)
        ELSE IF ~mlen.ok THEN Throw(mlen)
        ELSE IF metaType.val = 47 THEN
          IF mlen.val # 0 /\ ~mskip.ok THEN Throw(mskip)
          ELSE Out(TRUE, "", IF mlen.val # 0 THEN mskip.off ELSE mlen.off,
                   <<>>, <<>>, TRUE)
        ELSE IF metaType.val = 81 THEN
          IF ~t0.ok THEN Throw(t0)
          ELSE IF ~t1.ok THEN Throw(t1)
          ELSE IF ~t2.ok THEN Throw(t2)
          ELSE Continue(t2.off, <<>>,
                        <<[tick |-> tick1,
                           usPerQN |-> t0.val * 65536 + t1.val * 256 + t2.val]>>)
        ELSE IF ~mskip.ok THEN Throw(mskip)
        ELSE Continue(mskip.off, <<>>, <<>>)
      ELSE IF status \in {240, 247} THEN
        IF ~slen.ok THEN Throw(slen)
        ELSE IF ~sskip.ok THEN Throw(sskip)
        ELSE Continue(sskip.off, <<>>, <<>>)
      ELSE ThrowAt(ErrStatus, f.off)

\* One iteration of the while loop of walk_one_track, from the delta-time to
\* the `continue`, `break` or throw that ends it.
walk_iteration(data, off, tk, rs) ==
  LET delta == read_vlq(data, off)
      tick1 == U32Add(tk, U32(delta.val))
      f == u8(data, delta.off)
      first == f.val
      isStatus == first >= 128
      running1 == running_after(rs, first)
      status == IF isStatus THEN first ELSE rs
      haveData1 == ~isStatus
      type == (status \div 16) * 16
      ch == status % 16
      d1 == IF haveData1 THEN [ok |-> TRUE, val |-> first, off |-> f.off, err |-> ""]
                         ELSE u8(data, f.off)
      d2 == u8(data, d1.off)
      metaType == u8(data, f.off)
      mlen == read_vlq(data, metaType.off)
      mskip == skip(data, mlen.off, mlen.val)
      t0 == u8(data, mlen.off)
      t1 == u8(data, t0.off)
      t2 == u8(data, t1.off)
      slen == read_vlq(data, f.off)
      sskip == skip(data, slen.off, slen.val)
      Out(ok, msg, o, ns, ts, brk) ==
        [ok |-> ok, err |-> msg, off |-> o, tick |-> tick1,
         running |-> running1, notes |-> ns, tempi |-> ts, brk |-> brk,
         haveFirst |-> TRUE, first |-> first, status |-> status,
         start |-> delta.off, at |-> o]
      Throw(r) == [Out(FALSE, r.err, off, <<>>, <<>>, FALSE) EXCEPT !.at = r.off]
      ThrowAt(msg, o) == [Out(FALSE, msg, off, <<>>, <<>>, FALSE) EXCEPT !.at = o]
      Continue(o, ns, ts) == Out(TRUE, "", o, ns, ts, FALSE)
  IN  IF ~delta.ok THEN
        [ok |-> FALSE, err |-> delta.err, off |-> off, tick |-> tk,
         running |-> rs, notes |-> <<>>, tempi |-> <<>>, brk |-> FALSE,
         haveFirst |-> FALSE, first |-> 0, status |-> 0, start |-> off,
         at |-> delta.off]
      ELSE IF ~f.ok THEN
        [ok |-> FALSE, err |-> f.err, off |-> off, tick |-> tick1,
         running |-> rs, notes |-> <<>>, tempi |-> <<>>, brk |-> FALSE,
         haveFirst |-> FALSE, first |-> 0, status |-> 0, start |-> delta.off,
         at |-> f.off]
      ELSE IF haveData1 /\ rs = NoRunning THEN ThrowAt(ErrRunning, f.off)
      ELSE IF type \in {128, 144, 160, 176, 224} THEN
        IF ~d1.ok THEN Throw(d1)
        ELSE IF ~d2.ok THEN Throw(d2)
        ELSE Continue(d2.off, note_events(type, tick1, ch, d1.val, d2.val), <<>>)
      ELSE IF type \in {192, 208} THEN
        IF ~d1.ok THEN Throw(d1)
        ELSE Continue(d1.off, <<>>, <<>>)
      ELSE IF status = 255 THEN
        IF ~metaType.ok THEN Throw(metaType)
        ELSE IF ~mlen.ok THEN Throw(mlen)
        ELSE IF metaType.val = 47 THEN
          IF mlen.val # 0 /\ ~mskip.ok THEN Throw(mskip)
          ELSE Out(TRUE, "", IF mlen.val # 0 THEN mskip.off ELSE mlen.off,
                   <<>>, <<>>, TRUE)
        ELSE IF metaType.val = 81 /\ mlen.val = 3 THEN
          IF ~t0.ok THEN Throw(t0)
          ELSE IF ~t1.ok THEN Throw(t1)
          ELSE IF ~t2.ok THEN Throw(t2)
          ELSE Continue(t2.off, <<>>,
                        <<[tick |-> tick1,
                           usPerQN |-> t0.val * 65536 + t1.val * 256 + t2.val]>>)
        ELSE IF ~mskip.ok THEN Throw(mskip)
        ELSE Continue(mskip.off, <<>>, <<>>)
      ELSE IF status \in {240, 247} THEN
        IF ~slen.ok THEN Throw(slen)
        ELSE IF ~sskip.ok THEN Throw(sskip)
        ELSE Continue(sskip.off, <<>>, <<>>)
      ELSE ThrowAt(ErrStatus, f.off)

(***************************************************************************)
(* The input files of the model                                            *)
(***************************************************************************)
MThdBytes == <<77, 84, 104, 100>>
MTrkBytes == <<77, 84, 114, 107>>
Be16Bytes(n) == <<n \div 256, n % 256>>
Be32Bytes(n) == <<0, 0>> \o Be16Bytes(n)

HeaderBytes(format, nTracks, division) ==
  MThdBytes \o Be32Bytes(6) \o Be16Bytes(format) \o Be16Bytes(nTracks)
            \o Be16Bytes(division)

ChunkBytes(data, declared) == MTrkBytes \o Be32Bytes(declared) \o data

\* encodings of single events, well formed and not
FragNoteOn == <<0, 144, 64, 127>>            \* 90 40 7F
FragRunOn == <<1, 65, 127>>                  \* (running) 41 7F
FragRunOff == <<2, 64, 0>>                   \* (running) 40 00
FragNoteOnVel0 == <<0, 145, 60, 0>>          \* 91 3C 00
FragNoteOff == <<129, 0, 131, 64, 64>>       \* delta 128, 83 40 40
FragPolyAT == <<0, 160, 1, 2>>               \* A0 01 02
FragCC == <<0, 177, 7, 100>>                 \* B1 07 64
FragProgram == <<0, 194, 5>>                 \* C2 05
FragPressure == <<0, 208, 5>>                \* D0 05
FragBend == <<0, 224, 0, 64>>                \* E0 00 40
FragEndOfTrack == <<0, 255, 47, 0>>          \* FF 2F 00
FragTempo == <<0, 255, 81, 3, 9, 39, 192>>   \* FF 51 03 09 27 C0 (600000)
FragTempoLen2 == <<0, 255, 81, 2, 1, 2>>     \* FF 51 02 01 02
FragText == <<0, 255, 1, 2, 144, 64>>        \* FF 01 02 90 40
FragSysEx == <<0, 240, 1, 247>>              \* F0 01 F7
FragUnsupported == <<0, 244>>                \* F4
FragHighData == <<0, 153, 200, 255>>         \* 99 C8 FF
FragCutVlq == <<129>>                        \* 81, a VLQ with no last byte

Fragments ==
  {FragNoteOn, FragRunOn, FragRunOff, FragNoteOnVel0, FragNoteOff, FragPolyAT,
   FragCC, FragProgram, FragPressure, FragBend, FragEndOfTrack, FragTempo,
   FragTempoLen2, FragText, FragSysEx, FragUnsupported, FragHighData,
   FragCutVlq}

\* the running-status example: 90 40 7F, then 41 7F, then 40 00
RunningStatusTrack == FragNoteOn \o FragRunOn \o FragRunOff

\* a NoteOn behind the largest delta-time, 2^28 - 1 ticks (FF FF FF 7F)
FragMaxDelta == <<255, 255, 255, 127, 144, 64, 127>>
FragDelta16 == <<16, 144, 64, 127>>

\* 16 deltas of 2^28 - 1 and one of 16: 2^32 ticks in all
RECURSIVE Repeat(_, _)
Repeat(s, n) == IF n = 0 THEN <<>> ELSE s \o Repeat(s, n - 1)

LongTrack == Repeat(FragMaxDelta, 16) \o FragDelta16

ExampleTracks ==
  {RunningStatusTrack, LongTrack,
   FragNoteOn \o FragTempo \o FragRunOn,
   FragNoteOn \o FragSysEx \o FragRunOff,
   FragNoteOn \o FragUnsupported \o FragRunOn}

Tracks == {Concat(fs) : fs \in SeqsUpTo(Fragments, MaxEvents)} \cup ExampleTracks

\* first tracks of the two-track files
FirstTracks ==
  {<<>>, FragNoteOn, FragNoteOn \o FragEndOfTrack, FragTempo \o FragNoteOff,
   FragEndOfTrack \o FragNoteOn}

HeaderFields ==
  {<<f, n, d>> : f \in {0, 1, 258}, n \in {0, 1, 2, 256},
                 d \in {0, 2, 480, 32767, 32768, 57936, 59176, 65535}}

HeaderFiles ==
  {HeaderBytes(x[1], x[2], x[3]) : x \in HeaderFields}
    \cup {HeaderBytes(0, 0, 480) \o <<1, 2>>}

\* files whose header chunk is wrong or cut short
BadHeaderFiles ==
  {SubSeq(HeaderBytes(1, 0, 480), 1, n) : n \in 0..13}
    \cup {[HeaderBytes(1, 0, 480) EXCEPT ![k] = 0] : k \in 1..4}
    \cup {[HeaderBytes(1, 0, 480) EXCEPT ![k] = 1] : k \in 5..7}
    \cup {[HeaderBytes(1, 0, 480) EXCEPT ![8] = v] : v \in {0, 5, 7}}
    \cup {MTrkBytes \o SubSeq(HeaderBytes(1, 0, 480), 5, 14)}

\* <<declared length - actual length, bytes after the chunk>>
Framings == {<<0, <<>> >>, <<0, <<0>> >>, <<1, <<>> >>, <<0 - 1, <<>> >>}

OneTrackFiles ==
  UNION {{HeaderBytes(0, 1, 480) \o ChunkBytes(d, Len(d) + x[1]) \o x[2] :
            x \in {y \in Framings : Len(d) + y[1] >= 0}} : d \in Tracks}

TwoTrackFiles ==
  {HeaderBytes(1, 2, 480) \o ChunkBytes(a, Len(a)) \o ChunkBytes(b, Len(b)) :
     a \in FirstTracks, b \in Tracks}

\* files whose track chunk header is wrong or cut short
BadChunkFiles ==
  {HeaderBytes(1, 1, 480) \o SubSeq(ChunkBytes(FragNoteOn, 4), 1, n) : n \in 0..11}
    \cup {HeaderBytes(1, 1, 480) \o [ChunkBytes(FragNoteOn, 4) EXCEPT ![k] = 0] :
            k \in 1..4}
    \cup {HeaderBytes(1, 1, 480) \o [ChunkBytes(FragNoteOn, 4) EXCEPT ![k] = 128] :
            k \in 5..6}
    \cup {HeaderBytes(1, 2, 480) \o ChunkBytes(FragNoteOn, 4) \o MThdBytes
            \o Be32Bytes(0)}
    \cup {HeaderBytes(1, 2, 480) \o ChunkBytes(FragNoteOn, 4)}

Files == HeaderFiles \cup BadHeaderFiles \cup OneTrackFiles \cup TwoTrackFiles
           \cup BadChunkFiles

(***************************************************************************)
(* parse_smf (midi/smf.cpp), one action per step of its control flow       *)
(***************************************************************************)
ParseInit ==
  /\ file \in Files
  /\ pc = "header"
  /\ r_off = 0
  /\ header = DefaultHeader
  /\ trk = 0
  /\ tr = <<>>
  /\ tr_off = 0
  /\ tick = U32(0)
  /\ running = NoRunning
  /\ notes = <<>>
  /\ tempi = <<>>
  /\ song = <<>>
  /\ err = ""
  /\ iters = <<>>
  /\ chunks = <<>>

\* the exception leaves parse_smf: no Song is returned
Raise(msg) ==
  /\ pc' = "error"
  /\ err' = msg
  /\ song' = <<>>

\* SMFHeader header = parse_header(r);
ParseHeader ==
  /\ pc = "header"
  /\ LET h == parse_header(file, r_off)
     IN  IF h.ok
           THEN /\ header' = h.h
                /\ r_off' = h.off
                /\ pc' = "tracks"
                /\ UNCHANGED <<err, song>>
           ELSE /\ Raise(h.err)
                /\ UNCHANGED <<header, r_off>>
  /\ UNCHANGED <<file, trk, tr, tr_off, tick, running, notes, tempi, iters,
                 chunks>>

\* WalkBegin with `running` kept from the previous track
WalkBeginKeepsRunning ==
  /\ pc = "tracks"
  /\ trk < header.nTracks
  /\ LET b == track_begin(file, r_off)
     IN  IF b.ok
           THEN /\ r_off' = b.off
                /\ tr' = b.data
                /\ tr_off' = 0
                /\ tick' = U32(0)
                /\ pc' = "walk"
                /\ chunks' = Append(chunks, [at |-> r_off, len |-> Len(b.data)])
                /\ UNCHANGED <<err, song, running>>
           ELSE /\ Raise(b.err)
                /\ UNCHANGED <<r_off, tr, tr_off, tick, running, chunks>>
  /\ UNCHANGED <<file, header, trk, notes, tempi, iters>>

\* WalkBegin with `tick` kept from the previous track
WalkBeginKeepsTick ==
  /\ pc = "tracks"
  /\ trk < header.nTracks
  /\ LET b == track_begin(file, r_off)
     IN  IF b.ok
           THEN /\ r_off' = b.off
                /\ tr' = b.data
                /\ tr_off' = 0
                /\ running' = NoRunning
                /\ pc' = "walk"
                /\ chunks' = Append(chunks, [at |-> r_off, len |-> Len(b.data)])
                /\ UNCHANGED <<err, song, tick>>
           ELSE /\ Raise(b.err)
                /\ UNCHANGED <<r_off, tr, tr_off, tick, running, chunks>>
  /\ UNCHANGED <<file, header, trk, notes, tempi, iters>>

\* walk_one_track up to its while loop: the chunk header, the slice, the
\* fresh tick and running status
WalkBegin ==
  /\ pc = "tracks"
  /\ trk < header.nTracks
  /\ LET b == track_begin(file, r_off)
     IN  IF b.ok
           THEN /\ r_off' = b.off
                /\ tr' = b.data
                /\ tr_off' = 0
                /\ tick' = U32(0)
                /\ running' = NoRunning
                /\ pc' = "walk"
                /\ chunks' = Append(chunks, [at |-> r_off, len |-> Len(b.data)])
                /\ UNCHANGED <<err, song>>
           ELSE /\ Raise(b.err)
                /\ UNCHANGED <<r_off, tr, tr_off, tick, running, chunks>>
  /\ UNCHANGED <<file, header, trk, notes, tempi, iters>>

\* WalkIteration with an End-of-Track that does not leave the loop
WalkIterationIgnoresEndOfTrack ==
  /\ pc = "walk"
  /\ tr_off < Len(tr)
  /\ LET w == walk_iteration(tr, tr_off, tick, running)
     IN  /\ iters' = Append(iters, [w EXCEPT !.notes = Len(w.notes),
                                             !.tempi = Len(w.tempi)]
                                     @@ [trk |-> trk, from |-> tr_off])
         /\ IF w.ok
              THEN /\ tr_off' = w.off
                   /\ tick' = w.tick
                   /\ running' = w.running
                   /\ notes' = notes \o w.notes
                   /\ tempi' = tempi \o w.tempi
                   /\ pc' = "walk"
                   /\ UNCHANGED <<err, song, trk>>
              ELSE /\ Raise(w.err)
                   /\ UNCHANGED <<tr_off, tick, running, notes, tempi, trk>>
  /\ UNCHANGED <<file, header, r_off, tr, chunks>>

\* one iteration of while (tr.off < tr.data.size())
WalkIteration ==
  /\ pc = "walk"
  /\ tr_off < Len(tr)
  /\ LET w == walk_iteration(tr, tr_off, tick, running)
     IN  /\ iters' = Append(iters, [w EXCEPT !.notes = Len(w.notes),
                                             !.tempi = Len(w.tempi)]
                                     @@ [trk |-> trk, from |-> tr_off])
         /\ IF w.ok
              THEN /\ tr_off' = w.off
                   /\ tick' = w.tick
                   /\ running' = w.running
                   /\ notes' = notes \o w.notes
                   /\ tempi' = tempi \o w.tempi
                   /\ pc' = IF w.brk THEN "tracks" ELSE "walk"
                   /\ trk' = IF w.brk THEN trk + 1 ELSE trk
                   /\ UNCHANGED <<err, song>>
              ELSE /\ Raise(w.err)
                   /\ UNCHANGED <<tr_off, tick, running, notes, tempi, trk>>
  /\ UNCHANGED <<file, header, r_off, tr, chunks>>

\* the loop condition fails: walk_one_track returns, ++i
WalkReturn ==
  /\ pc = "walk"
  /\ tr_off >= Len(tr)
  /\ pc' = "tracks"
  /\ trk' = trk + 1
  /\ UNCHANGED <<file, header, r_off, tr, tr_off, tick, running, notes, tempi,
                 song, err, iters, chunks>>

\* the for loop is over: the Song is assembled and returned
ParseReturn ==
  /\ pc = "tracks"
  /\ trk >= header.nTracks
  /\ song' = <<[header |-> header, notes |-> notes, tempi |-> tempi]>>
  /\ pc' = "done"
  /\ UNCHANGED <<file, header, r_off, trk, tr, tr_off, tick, running, notes,
                 tempi, err, iters, chunks>>

VlqIdle == vdata = <<>> /\ vres = <<>>

SchedIdle ==
  /\ songIn = [header |-> DefaultHeader, notes |-> <<>>, tempi |-> <<>>]
  /\ tempoMap = <<>>
  /\ schedRuns = <<>>
  /\ convs = <<>>

\* before play is called
PlayIdle ==
  /\ ppc = "idle"
  /\ perr = ""
  /\ synth = "none"
  /\ device = "none"
  /\ events = <<>>
  /\ nextIndex = 0
  /\ timeSec = 0
  /\ endTimeSec = [k |-> "fin", v |-> 0]
  /\ calls = <<>>
  /\ cbs = <<>>
  /\ elapsed = 0
  /\ teardown = <<>>
  /\ accesses = {}

Init == ParseInit /\ VlqIdle /\ SchedIdle /\ PlayIdle

Next ==
  \/ ParseHeader /\ UNCHANGED <<vlqVars, schedVars, playVars>>
  \/ WalkBegin /\ UNCHANGED <<vlqVars, schedVars, playVars>>
  \/ WalkIteration /\ UNCHANGED <<vlqVars, schedVars, playVars>>
  \/ WalkReturn /\ UNCHANGED <<vlqVars, schedVars, playVars>>
  \/ ParseReturn /\ UNCHANGED <<vlqVars, schedVars, playVars>>

Spec == Init /\ [][Next]_vars

\* the files with at most one event in each track, the example tracks, and
\* the files with a bad header or chunk
ShortTracks == Fragments \cup ExampleTracks \cup {<<>>}

ShortFiles ==
  HeaderFiles \cup BadHeaderFiles \cup BadChunkFiles
    \cup UNION {{HeaderBytes(0, 1, 480) \o ChunkBytes(d, Len(d) + x[1]) \o x[2] :
                   x \in {y \in Framings : Len(d) + y[1] >= 0}} : d \in ShortTracks}
    \cup {HeaderBytes(1, 2, 480) \o ChunkBytes(a, Len(a)) \o ChunkBytes(b, Len(b)) :
            a \in FirstTracks, b \in ShortTracks}

InitShort ==
  /\ file \in ShortFiles
  /\ pc = "header"
  /\ r_off = 0
  /\ header = DefaultHeader
  /\ trk = 0
  /\ tr = <<>>
  /\ tr_off = 0
  /\ tick = U32(0)
  /\ running = NoRunning
  /\ notes = <<>>
  /\ tempi = <<>>
  /\ song = <<>>
  /\ err = ""
  /\ iters = <<>>
  /\ chunks = <<>>
  /\ VlqIdle
  /\ SchedIdle
  /\ PlayIdle

\* parse_smf runs on one thread, which keeps taking its next step
SpecParseFair == InitShort /\ [][Next]_vars /\ WF_vars(Next)

(***************************************************************************)
(* read_vlq on its own: one call on a buffer, from offset 0                *)
(***************************************************************************)
ParseIdle ==
  /\ file = <<>>
  /\ pc = "idle"
  /\ r_off = 0
  /\ header = DefaultHeader
  /\ trk = 0
  /\ tr = <<>>
  /\ tr_off = 0
  /\ tick = U32(0)
  /\ running = NoRunning
  /\ notes = <<>>
  /\ tempi = <<>>
  /\ song = <<>>
  /\ err = ""
  /\ iters = <<>>
  /\ chunks = <<>>

\* the canonical (shortest) VLQ encoding of v, 0 <= v < 2^28
vlq_encode(v) ==
  IF v < 128 THEN <<v>>
  ELSE IF v < 16384 THEN <<128 + (v \div 128), v % 128>>
  ELSE IF v < 2097152 THEN
    <<128 + (v \div 16384), 128 + ((v \div 128) % 128), v % 128>>
  ELSE <<128 + (v \div 2097152), 128 + ((v \div 16384) % 128),
         128 + ((v \div 128) % 128), v % 128>>

VlqGroups == {0, 1, 64, 127}
VlqValues ==
  {((a * 128 + b) * 128 + c) * 128 + d :
     a \in VlqGroups, b \in VlqGroups, c \in VlqGroups, d \in VlqGroups}
VlqMax == ((127 * 128 + 127) * 128 + 127) * 128 + 127    \* 2^28 - 1

VlqInputs ==
  {vlq_encode(v) \o sfx : v \in VlqValues, sfx \in {<<>>, <<0>>, <<133, 0>>}}
    \cup SeqsUpTo({0, 127, 128, 255}, MaxVlqBytes)

VlqInit ==
  /\ vdata \in VlqInputs
  /\ vres = <<>>

VlqRead ==
  /\ vres = <<>>
  /\ vres' = <<read_vlq(vdata, 0)>>
  /\ UNCHANGED vdata

VlqNext == VlqRead /\ UNCHANGED <<parseVars, schedVars, playVars>>

InitVlq == ParseIdle /\ VlqInit /\ SchedIdle /\ PlayIdle

SpecVlq == InitVlq /\ [][VlqNext]_vars

IsPrefix(p, s) == Len(p) <= Len(s) /\ SubSeq(s, 1, Len(p)) = p

\* the number of bytes up to and including the first one with the high bit
\* clear among the first `cap` bytes; cap when there is none
RECURSIVE StopIndex(_, _, _)
StopIndex(s, k, cap) ==
  IF k > cap THEN cap
  ELSE IF k > Len(s) THEN Len(s) + 1
  ELSE IF s[k] < 128 THEN k
  ELSE StopIndex(s, k + 1, cap)

\* C5: read_vlq of the canonical encoding of v returns v and advances by the
\* encoding's length (1..4); on any input the read stops at the first byte
\* whose high bit is 0 and consumes at most 4 bytes, even when the 4th byte
\* has its continuation bit set; it fails exactly when the buffer ends first.
VlqRoundTrip ==
  vres # <<>> =>
    LET r == vres[1]
        stop == StopIndex(vdata, 1, 4)
    IN  /\ \A v \in VlqValues :
             IsPrefix(vlq_encode(v), vdata) =>
               /\ r.ok
               /\ r.val = v
               /\ r.off = Len(vlq_encode(v))
               /\ r.off \in 1..4
        /\ r.off <= 4
        /\ r.ok <=> stop <= Len(vdata)
        /\ r.ok => r.off = stop

\* the largest value, FF FF FF 7F, has been read back, and so has a buffer
\* whose first four bytes all have the continuation bit set
VlqRoundTripWitness ==
  /\ vres # <<>>
  /\ \/ vdata = vlq_encode(VlqMax) \o <<133, 0>> /\ vres[1].val = VlqMax
     \/ vdata = <<255, 255, 255, 255, 0>> /\ vres[1].off = 4 /\ vres[1].ok

(***************************************************************************)
(* Properties of parse_smf                                                 *)
(***************************************************************************)
Unsupported == (241..246) \cup (248..254)    \* 0xF1..0xF6, 0xF8..0xFE
ChannelStatus == 128..239                    \* 0x80..0xEF

\* tracks that are cut short or hold an unsupported status byte
MalformedTracks ==
  {<<d, Len(d)>> : d \in {FragCutVlq, FragNoteOn \o FragCutVlq, FragUnsupported,
                          FragNoteOn \o FragUnsupported}}
    \cup {<<d, Len(d) - 1>> : d \in {FragNoteOn, FragNoteOff, FragProgram,
                                     FragTempo, FragText, FragSysEx,
                                     FragEndOfTrack, FragNoteOn \o FragRunOn}}
MalformedFiles ==
  {HeaderBytes(0, 1, 480) \o ChunkBytes(x[1], x[2]) : x \in MalformedTracks}

\* C2: parse_smf is all-or-nothing: it ends with a complete Song (header and
\* the events of all nTracks tracks) or with an error and no Song; it never
\* returns a Song when the header magic is not MThd, the header length is not
\* 6, a track magic is not MTrk, a read or skip ran past the bytes (a VLQ cut
\* short included), or a status byte 0xF1..0xF6, 0xF8..0xFE was met.
ParseAllOrNothing ==
  /\ pc # "done" => song = <<>>
  /\ pc = "error" <=> err # ""
  /\ pc = "done" =>
       /\ song = <<[header |-> header, notes |-> notes, tempi |-> tempi]>>
       /\ trk = header.nTracks
       /\ Len(chunks) = header.nTracks
       /\ Len(file) >= 14
       /\ SubSeq(file, 1, 4) = MThdBytes
       /\ SubSeq(file, 5, 8) = <<0, 0, 0, 6>>
       /\ \A c \in 1..Len(chunks) :
            /\ SubSeq(file, chunks[c].at + 1, chunks[c].at + 4) = MTrkBytes
            /\ chunks[c].at + 8 + chunks[c].len <= Len(file)
       /\ \A i \in 1..Len(iters) :
            /\ iters[i].ok
            /\ iters[i].first \notin Unsupported
            /\ iters[i].off <= chunks[iters[i].trk + 1].len
       /\ file \notin MalformedFiles \cup BadHeaderFiles \cup BadChunkFiles

\* a file whose track ends inside a VLQ has failed after one note was
\* decoded, and no Song was returned
ParseAllOrNothingWitness ==
  /\ file = HeaderBytes(0, 1, 480) \o ChunkBytes(FragNoteOn \o FragCutVlq, 5)
  /\ pc = "error"
  /\ err = EofU8
  /\ Len(notes) = 1
  /\ song = <<>>

\* the most recent byte in 0x80..0xEF met in status position before iteration
\* i, within the same track; NoRunning when there is none
RECURSIVE LastChannelStatus(_, _)
LastChannelStatus(i, j) ==
  IF j = 0 \/ iters[j].trk # iters[i].trk THEN NoRunning
  ELSE IF iters[j].haveFirst /\ iters[j].first \in ChannelStatus
    THEN iters[j].first
  ELSE LastChannelStatus(i, j - 1)

RunningStatusFile == HeaderBytes(0, 1, 480) \o ChunkBytes(RunningStatusTrack, 10)

\* C3: a byte with the high bit clear in status position is the first data
\* byte of a message whose status is the most recent channel status byte
\* (0x80..0xEF) of that track; meta and SysEx status bytes leave the remembered
\* status alone.  90 40 7F, 41 7F, 40 00 (deltas 0, 1, 2) gives On(0x40) at
\* tick 0, On(0x41) at tick 1, Off(0x40) at tick 3.
RunningStatus ==
  /\ \A i \in 1..Len(iters) :
       (iters[i].haveFirst /\ iters[i].first < 128) =>
         /\ iters[i].status = LastChannelStatus(i, i - 1)
         /\ iters[i].ok => iters[i].status \in ChannelStatus
  /\ (file = RunningStatusFile /\ pc = "done") =>
       notes = <<[tick |-> U32(0), ch |-> 0, note |-> 64, vel |-> 127,
                  type |-> "NoteOn"],
                 [tick |-> U32(1), ch |-> 0, note |-> 65, vel |-> 127,
                  type |-> "NoteOn"],
                 [tick |-> U32(3), ch |-> 0, note |-> 64, vel |-> 0,
                  type |-> "NoteOff"]>>

\* the example has been decoded, and so has a track whose running status
\* survived a tempo meta event
RunningStatusWitness ==
  \/ file = RunningStatusFile /\ pc = "done" /\ Len(notes) = 3
  \/ /\ file = HeaderBytes(0, 1, 480)
              \o ChunkBytes(FragNoteOn \o FragTempo \o FragRunOn, 14)
     /\ pc = "done"
     /\ Len(notes) = 2
     /\ Len(tempi) = 1

\* C4: the running status starts unset in every track: a data byte in status
\* position before any channel status byte of the current track fails the
\* decode, whatever running status an earlier track ended with.
RunningStatusPerTrack ==
  \A i \in 1..Len(iters) :
    (/\ iters[i].haveFirst
     /\ iters[i].first < 128
     /\ LastChannelStatus(i, i - 1) = NoRunning) =>
      /\ ~iters[i].ok
      /\ iters[i].err = ErrRunning
      /\ i = Len(iters)
      /\ pc = "error"
      /\ err = ErrRunning
      /\ song = <<>>

\* the second track opens with a data byte after the first track ended with
\* running status 0x90, and the decode has failed
RunningStatusPerTrackWitness ==
  /\ file = HeaderBytes(1, 2, 480) \o ChunkBytes(FragNoteOn, 4)
              \o ChunkBytes(FragRunOn, 3)
  /\ pc = "error"
  /\ err = ErrRunning
  /\ Len(iters) = 2
  /\ iters[1].running = 144
  /\ iters[2].trk = 1

HeaderPrefixOk(f) ==
  /\ Len(f) >= 14
  /\ SubSeq(f, 1, 4) = MThdBytes
  /\ SubSeq(f, 5, 8) = <<0, 0, 0, 6>>

\* C6: for a buffer that starts with MThd and length 6, format, nTracks and
\* division are the next three big-endian 16-bit fields; division with the top
\* bit clear is PPQN with ppqn = division & 0x7FFF, otherwise SMPTE with
\* fps = 256 - high byte and subframes = low byte.  00 01 00 02 01 E0 gives
\* format 1, 2 tracks, PPQN 480; division E2 50 gives 30 fps, 80 subframes.
HeaderFieldsDecoded ==
  (pc # "header" /\ HeaderPrefixOk(file)) =>
    /\ r_off >= 14
    /\ header.format = file[9] * 256 + file[10]
    /\ header.nTracks = file[11] * 256 + file[12]
    /\ header.division = file[13] * 256 + file[14]
    /\ file[13] < 128 =>
         header.isPPQN /\ header.ppqn = (file[13] % 128) * 256 + file[14]
    /\ file[13] >= 128 =>
         /\ ~header.isPPQN
         /\ header.smpte_fps = 256 - file[13]
         /\ header.smpte_sub = file[14]
    /\ SubSeq(file, 9, 14) = <<0, 1, 0, 2, 1, 224>> =>
         /\ header.format = 1
         /\ header.nTracks = 2
         /\ header.isPPQN
         /\ header.ppqn = 480
    /\ SubSeq(file, 13, 14) = <<226, 80>> =>
         /\ ~header.isPPQN
         /\ header.smpte_fps = 30
         /\ header.smpte_sub = 80

\* the example header has been parsed, and so has one with division E2 50
HeaderFieldsDecodedWitness ==
  /\ pc # "header"
  /\ Len(file) >= 14
  /\ \/ file = <<77, 84, 104, 100, 0, 0, 0, 6, 0, 1, 0, 2, 1, 224>>
        /\ header.ppqn = 480
     \/ SubSeq(file, 13, 14) = <<226, 80>> /\ header.smpte_fps = 30

\* C9: every NoteEvent of a decoded Song has channel 0..15, note 0..127 and
\* velocity 0..127.
NoteFieldsInRange ==
  pc = "done" =>
    \A i \in 1..Len(song[1].notes) :
      /\ song[1].notes[i].ch \in 0..15
      /\ song[1].notes[i].note \in 0..127
      /\ song[1].notes[i].vel \in 0..127

\* C10 (state part): every NoteOn held has a nonzero velocity
NoteOnHasVelocity ==
  \A i \in 1..Len(notes) : notes[i].type = "NoteOn" => notes[i].vel # 0

\* C10 (step part): what one successful iteration on a channel message
\* consumes and emits.  The bytes of the message are tr[start+1 .. off].
NoteExtractionStep ==
  (pc = "walk" /\ tr_off < Len(tr) /\ pc' # "error") =>
    LET it == iters'[Len(iters')]
        type == (it.status \div 16) * 16
        ch == it.status % 16
        dataBytes == (it.off - it.start) - (IF it.first >= 128 THEN 1 ELSE 0)
        d1 == tr[it.off - 1]
        d2 == tr[it.off]
        ev(kind) == [tick |-> tick', ch |-> ch, note |-> d1, vel |-> d2,
                     type |-> kind]
    IN  /\ type = 144 /\ d2 # 0 =>
             dataBytes = 2 /\ notes' = Append(notes, ev("NoteOn"))
        /\ type = 144 /\ d2 = 0 =>
             dataBytes = 2 /\ notes' = Append(notes, ev("NoteOff"))
        /\ type = 128 =>
             dataBytes = 2 /\ notes' = Append(notes, ev("NoteOff"))
        /\ type \in {160, 176, 224} => dataBytes = 2 /\ notes' = notes
        /\ type \in {192, 208} => dataBytes = 1 /\ notes' = notes
        /\ type \in {128, 144, 160, 176, 192, 208, 224} =>
             tempi' = tempi /\ tr_off' = it.off

\* C10: a 0x9n message with nonzero velocity emits exactly one NoteOn; a 0x9n
\* message with velocity 0 and any 0x8n message emit exactly one NoteOff;
\* 0xAn, 0xBn, 0xEn consume two data bytes and 0xCn, 0xDn one, and emit
\* nothing; hence every NoteOn of a decoded Song has a nonzero velocity.
NoteExtraction == []NoteOnHasVelocity /\ [][NoteExtractionStep]_vars

\* a 0x91 message with velocity 0 has been decoded as a NoteOff, after a
\* program change that emitted nothing
NoteExtractionWitness ==
  /\ pc = "done"
  /\ file = HeaderBytes(0, 1, 480) \o ChunkBytes(FragProgram \o FragNoteOnVel0, 7)
  /\ notes = <<[tick |-> U32(0), ch |-> 1, note |-> 60, vel |-> 0,
                type |-> "NoteOff"]>>

(***************************************************************************)
(* double arithmetic, kept exact.  A finite time is [k |-> "fin", v |-> n] *)
(* with n in units of 1 / (ppqn * 10^6) second; within one TempoMap all     *)
(* finite times share the ppqn, so they compare by n.  Dividing by         *)
(* ppqn = 0 gives the IEEE values +infinity and NaN.                       *)
(***************************************************************************)
DFin(n) == [k |-> "fin", v |-> n]
DInf == [k |-> "inf", v |-> 0]
DNaN == [k |-> "nan", v |-> 0]

\* a + b
DAdd(a, b) ==
  IF a.k = "nan" \/ b.k = "nan" THEN DNaN
  ELSE IF a.k = "inf" \/ b.k = "inf" THEN DInf
  ELSE DFin(a.v + b.v)

\* a != b and a < b of IEEE doubles: every comparison with NaN but != is false
DNe(a, b) == a.k = "nan" \/ b.k = "nan" \/ a # b
DEq(a, b) == ~DNe(a, b)
DLt(a, b) ==
  /\ a.k = "fin"
  /\ \/ b.k = "inf"
     \/ b.k = "fin" /\ a.v < b.v

\* (dticks / static_cast<double>(ppqn)) * (usPerQN * 1e-6), dticks >= 0:
\* x / 0.0 is NaN for x = 0 and +infinity otherwise; infinity * 0 is NaN
quarter_seconds(dticks, ppqn, usPerQN) ==
  IF ppqn # 0 THEN DFin(dticks * usPerQN)
  ELSE IF dticks = 0 \/ usPerQN = 0 THEN DNaN
  ELSE DInf

U32Lt(a, b) == a.hi < b.hi \/ (a.hi = b.hi /\ a.lo < b.lo)
U32Le(a, b) == ~U32Lt(b, a)
\* a - b for a >= b, as a number (the songs of these specifications keep it
\* below 2^31)
U32Diff(a, b) == (a.hi - b.hi) * 65536 + (a.lo - b.lo)

(***************************************************************************)
(* std::sort.  The result is a permutation of the input; when the          *)
(* comparator is a strict weak ordering of the elements it is sorted, with *)
(* elements that compare equivalent in an unspecified order (std::sort is  *)
(* not stable); when it is not, the behaviour is undefined and any         *)
(* permutation can come out.                                               *)
(***************************************************************************)
Rearrangements(s) ==
  {[i \in 1..Len(s) |-> s[f[i]]] :
     f \in {g \in [1..Len(s) -> 1..Len(s)] :
              \A i, j \in 1..Len(s) : g[i] = g[j] => i = j}}

Range(s) == {s[i] : i \in 1..Len(s)}

\* lt is the comparator as the set of the pairs <<a, b>> with comp(a, b)
IsStrictWeakOrder(S, lt) ==
  /\ \A a \in S : <<a, a>> \notin lt
  /\ \A a, b, c \in S : (<<a, b>> \in lt /\ <<b, c>> \in lt) => <<a, c>> \in lt
  /\ \A a, b, c \in S :
       (<<a, b>> \notin lt /\ <<b, a>> \notin lt
          /\ <<b, c>> \notin lt /\ <<c, b>> \notin lt) =>
         (<<a, c>> \notin lt /\ <<c, a>> \notin lt)

IsSorted(s, lt) ==
  \A i, j \in 1..Len(s) : i < j => <<s[j], s[i]>> \notin lt

std_sort(s, lt) ==
  IF IsStrictWeakOrder(Range(s), lt)
    THEN {p \in Rearrangements(s) : IsSorted(p, lt)}
    ELSE Rearrangements(s)

(***************************************************************************)
(* build_tempo_map, ticks_to_seconds (midi/tempo.cpp)                      *)
(***************************************************************************)
FallbackPpqn == 480         \* SMPTE: simple fallback
DefaultUsPerQN == 500000    \* 120 BPM

tempo_less(a, b) == U32Lt(a.tick, b.tick)

\* the for loop over the sorted tempo events
RECURSIVE tempo_loop(_, _, _, _, _, _, _)
tempo_loop(sorted, i, ppqn, current_usPerQN, accSec, lastTick, segments) ==
  IF i > Len(sorted) THEN segments
  ELSE LET t == sorted[i]
       IN  IF U32Lt(t.tick, lastTick)
             THEN tempo_loop(sorted, i + 1, ppqn, current_usPerQN, accSec,
                             lastTick, segments)
             ELSE LET acc2 == DAdd(accSec,
                                   quarter_seconds(U32Diff(t.tick, lastTick),
                                                   ppqn, current_usPerQN))
                  IN  tempo_loop(sorted, i + 1, ppqn, t.usPerQN, acc2, t.tick,
                                 Append(segments,
                                        [startTick |-> t.tick, startSec |-> acc2,
                                         usPerQN |-> t.usPerQN]))

\* the TempoMaps build_tempo_map can return for a Song (one per outcome of
\* the sort of the tempo events)
build_tempo_map(s) ==
  LET ppqn == IF s.header.isPPQN THEN s.header.ppqn ELSE FallbackPpqn
  IN  {[ppqn |-> ppqn,
        segments |->
          tempo_loop(sorted, 1, ppqn, DefaultUsPerQN, DFin(0), U32(0),
                     <<[startTick |-> U32(0), startSec |-> DFin(0),
                        usPerQN |-> DefaultUsPerQN]>>)] :
       sorted \in std_sort(s.tempi,
                            {p \in Range(s.tempi) \X Range(s.tempi) :
                               tempo_less(p[1], p[2])})}

\* the scan for the last segment whose startTick <= tick, from the front
RECURSIVE find_segment(_, _, _, _)
find_segment(segments, i, tk, seg) ==
  IF i > Len(segments) THEN seg
  ELSE IF U32Le(segments[i].startTick, tk)
    THEN find_segment(segments, i + 1, tk, segments[i])
  ELSE seg

ticks_to_seconds(tk, tempo) ==
  LET seg == find_segment(tempo.segments, 1, tk, tempo.segments[1])
  IN  DAdd(seg.startSec,
           quarter_seconds(U32Diff(tk, seg.startTick), tempo.ppqn, seg.usPerQN))

(***************************************************************************)
(* build_schedule (audio/player.cpp)                                       *)
(***************************************************************************)
\* the comparator of the sort
sched_less(a, b) ==
  IF DNe(a.tSec, b.tSec) THEN DLt(a.tSec, b.tSec)
  ELSE IF a.on # b.on THEN b.on
  ELSE IF a.ch # b.ch THEN a.ch < b.ch
  ELSE a.note < b.note

scheduled_event(n, tempo) ==
  [tSec |-> ticks_to_seconds(n.tick, tempo), ch |-> n.ch, note |-> n.note,
   vel |-> n.vel, on |-> (n.type = "NoteOn")]

\* the schedules build_schedule can return (one per outcome of the sort)
build_schedule(s, tempo) ==
  LET evs == [i \in 1..Len(s.notes) |-> scheduled_event(s.notes[i], tempo)]
  IN  std_sort(evs, {p \in Range(evs) \X Range(evs) :
                       sched_less(p[1], p[2])})

(***************************************************************************)
(* build_tempo_map and two calls of build_schedule on the same Song        *)
(***************************************************************************)
NoteEv(tk, ch, note, vel, type) ==
  [tick |-> U32(tk), ch |-> ch, note |-> note, vel |-> vel, type |-> type]
TempoEv(tk, usPerQN) == [tick |-> U32(tk), usPerQN |-> usPerQN]

SchedNotes ==
  {NoteEv(t, c, 60, x[1], x[2]) :
     t \in {0, 1}, c \in {1, 2},
     x \in {<<64, "NoteOn">>, <<100, "NoteOn">>, <<0, "NoteOff">>}}
    \cup {NoteEv(1, 1, 61, 64, "NoteOn"), NoteEv(1, 1, 59, 0, "NoteOff")}

SchedSongs ==
  {[header |-> header_of(1, 1, d), notes |-> ns, tempi |-> ts] :
     d \in {0, 2}, ns \in SeqsUpTo(SchedNotes, MaxSchedNotes),
     ts \in {<<>>, <<TempoEv(1, 250000)>>}}

SchedInit ==
  /\ songIn \in SchedSongs
  /\ tempoMap = <<>>
  /\ schedRuns = <<<<>>, <<>>>>
  /\ convs = <<>>

\* midi::TempoMap tempo = midi::build_tempo_map(song)
BuildTempoMap ==
  /\ tempoMap = <<>>
  /\ \E m \in build_tempo_map(songIn) : tempoMap' = <<m>>
  /\ UNCHANGED <<songIn, schedRuns, convs>>

\* run k of build_schedule(song, tempo)
BuildSchedule(k) ==
  /\ tempoMap # <<>>
  /\ schedRuns[k] = <<>>
  /\ \E evs \in build_schedule(songIn, tempoMap[1]) :
       schedRuns' = [schedRuns EXCEPT ![k] = <<evs>>]
  /\ UNCHANGED <<songIn, tempoMap, convs>>

SchedNext ==
  \/ BuildTempoMap /\ UNCHANGED <<parseVars, vlqVars, playVars>>
  \/ \E k \in 1..2 : BuildSchedule(k) /\ UNCHANGED <<parseVars, vlqVars, playVars>>

InitSchedule == ParseIdle /\ VlqIdle /\ SchedInit /\ PlayIdle

SpecSchedule == InitSchedule /\ [][SchedNext]_vars

\* a before b in the order of the contract: (1) ascending time, (2) at equal
\* time NoteOff before NoteOn, (3) ascending channel, (4) ascending note
StrictlyBefore(a, b) ==
  \/ DLt(a.tSec, b.tSec)
  \/ /\ DEq(a.tSec, b.tSec)
     /\ \/ ~a.on /\ b.on
        \/ a.on = b.on /\ a.ch < b.ch
        \/ a.on = b.on /\ a.ch = b.ch /\ a.note < b.note

\* C7: for every song, in every order of its notes, no event of the built
\* schedule comes after one that the contract's order puts strictly after it;
\* in particular a NoteOff(channel 1) precedes a NoteOn(channel 2) of the
\* same time.
ScheduleOrdered ==
  \A k \in 1..2 :
    schedRuns[k] # <<>> =>
      LET evs == schedRuns[k][1]
      IN  \A i, j \in 1..Len(evs) :
            i < j => ~StrictlyBefore(evs[j], evs[i])

\* C8: two runs of build_schedule on the same Song and TempoMap return the
\* same sequence, the same values at the same positions.
ScheduleDeterministic ==
  (schedRuns[1] # <<>> /\ schedRuns[2] # <<>>) => schedRuns[1] = schedRuns[2]

(***************************************************************************)
(* audio::play and the real-time callback (audio/player.cpp)               *)
(*                                                                         *)
(* The audio clock is kept as a whole number of frames: the clock starts   *)
(* at 0.0 and every callback adds frameCount / sampleRate to it.  A finite *)
(* time of the TempoMap is in units of 1 / (Scale * 10^6) second.          *)
(***************************************************************************)
SampleRate == 44100   \* const ma_uint32 sampleRate
TailSec == 2          \* const double tailSec

Scale(tempo) == IF tempo.ppqn = 0 THEN 1 ELSE tempo.ppqn

\* n seconds as a double of the TempoMap
Seconds(n, tempo) == DFin(n * Scale(tempo) * 1000000)

RateNum == SampleRate \div 100
RateDen == 1000000 \div 100

\* the least f with v / 10^6 <= f / SampleRate: v * 441 / 10^4, rounded up
CeilFrames(v) ==
  (v \div RateDen) * RateNum
    + (((v % RateDen) * RateNum + RateDen - 1) \div RateDen)

\* d <= t, d < t' and t >= d for a double d and a clock value of t frames
\* (u is the Scale of the TempoMap); false whenever d is NaN
TimeLe(d, t, u) == d.k = "fin" /\ CeilFrames(d.v) <= t * u
ClockLt(t, d, u) == d.k = "inf" \/ (d.k = "fin" /\ t * u < CeilFrames(d.v))
ClockGe(t, d, u) == d.k = "fin" /\ t * u >= CeilFrames(d.v)

\* a loop that applies at most one event per callback
dispatch_at_most_one(evs, idx, t1, u) ==
  IF idx < Len(evs) /\ TimeLe(evs[idx + 1].tSec, t1, u) THEN idx + 1 ELSE idx

\* a dispatch loop that leaves an event due exactly at t1 to the next callback
RECURSIVE dispatch_loop_strict(_, _, _, _)
dispatch_loop_strict(evs, idx, t1, u) ==
  IF idx < Len(evs) /\ evs[idx + 1].tSec.k = "fin"
       /\ CeilFrames(evs[idx + 1].tSec.v) < t1 * u
    THEN dispatch_loop_strict(evs, idx + 1, t1, u)
    ELSE idx

\* the while loop of data_callback: the value of nextIndex when it ends
RECURSIVE dispatch_loop(_, _, _, _)
dispatch_loop(evs, idx, t1, u) ==
  IF idx < Len(evs) /\ TimeLe(evs[idx + 1].tSec, t1, u)
    THEN dispatch_loop(evs, idx + 1, t1, u)
    ELSE idx

\* a double d of the TempoMap in frames: (q + r / RateDen) / u frames
EndFrames(v) ==
  [q |-> (v \div RateDen) * RateNum + (((v % RateDen) * RateNum) \div RateDen),
   r |-> ((v % RateDen) * RateNum) % RateDen]

\* the factor (num + frac / RateDen) / den
Factor(num, frac, den) == [num |-> num, frac |-> frac, den |-> den]

\* scale without the floor at 0: tailLeft = endTimeSec - t0
fade_scale_no_floor(t0, frameCount, d, u) ==
  LET e == EndFrames(d.v)
  IN  Factor(e.q - t0 * u, e.r, frameCount * u)

\* the scale of the fade, for a finite endTimeSec d:
\* tailLeft = std::max(0.0, endTimeSec - t0); scale = tailLeft / dt;
\* if (scale < 0.0) scale = 0.0
fade_scale(t0, frameCount, d, u) ==
  LET e == EndFrames(d.v)
      den == frameCount * u
  IN  IF e.q - t0 * u < 0 THEN Factor(0, 0, den)
      ELSE Factor(e.q - t0 * u, e.r, den)

\* the call made for event e; vel is the numerator of the gain vel / 127.0f
synth_call(e) ==
  IF e.on
    THEN [fn |-> "tsf_note_on", ch |-> e.ch, key |-> e.note,
          vel |-> IF e.vel <= 127 THEN e.vel ELSE 127]
    ELSE [fn |-> "tsf_note_off", ch |-> e.ch, key |-> e.note, vel |-> 0]

ErrSoundFont == "Failed to load SoundFont (.sf2)"
ErrDeviceOpen == "Failed to open playback device"
ErrDeviceStart == "Failed to start playback device"

PlayNotes ==
  {NoteEv(0, 1, 60, 64, "NoteOn"), NoteEv(1, 1, 60, 0, "NoteOff"),
   NoteEv(1, 2, 62, 200, "NoteOn"), NoteEv(2, 2, 62, 0, "NoteOff"),
   NoteEv(1, 2, 62, 0, "NoteOff")}

PlaySongs ==
  {[header |-> header_of(1, 1, d), notes |-> ns, tempi |-> ts] :
     d \in {0, 2}, ns \in SeqsUpTo(PlayNotes, MaxPlayNotes),
     ts \in {<<>>, <<TempoEv(1, 250000)>>}}

\* the buffer sizes the device asks for
FrameCounts == {1, 11024, 88200}

PollMs == 30      \* std::chrono::milliseconds(30)
GraceSec == 10    \* endTimeSec + 10.0

\* sleep_for(30 ms) lasts at least 30 ms; the wall clock is looked at after
\* sleeps of these lengths
SleepMs == {100 * PollMs, 200 * PollMs}

\* elapsed > endTimeSec + 10.0, elapsed in milliseconds
WallGt(ms, d, u) ==
  d.k = "fin" /\ ms * u * 1000 > d.v + GraceSec * u * 1000000

Acc(thread, field, kind) == [thread |-> thread, field |-> field, kind |-> kind]

\* play is entered with a Song and the TempoMap build_tempo_map made of it
PlayInit ==
  /\ songIn \in PlaySongs
  /\ tempoMap \in {<<m>> : m \in build_tempo_map(songIn)}
  /\ schedRuns = <<>>
  /\ convs = <<>>
  /\ ppc = "entry"
  /\ perr = ""
  /\ synth = "none"
  /\ device = "none"
  /\ events = <<>>
  /\ nextIndex = 0
  /\ timeSec = 0
  /\ endTimeSec = DFin(0)
  /\ calls = <<>>
  /\ cbs = <<>>
  /\ elapsed = 0
  /\ teardown = <<>>
  /\ accesses = {}

\* evs = build_schedule(song, tempo); durationSec; the values state.events
\* and state.endTimeSec are given
PlayBuildSchedule ==
  /\ ppc = "entry"
  /\ \E evs \in build_schedule(songIn, tempoMap[1]) :
       LET durationSec == IF evs # <<>> THEN evs[Len(evs)].tSec ELSE DFin(0)
       IN  /\ events' = evs
           /\ endTimeSec' = DAdd(durationSec, Seconds(TailSec, tempoMap[1]))
  /\ ppc' = "load"
  /\ UNCHANGED <<perr, synth, device, nextIndex, timeSec, calls, cbs, elapsed,
                 teardown, accesses>>

\* tsf_load_filename; ensure(synth != nullptr, ...)
PlayLoadSynth ==
  /\ ppc = "load"
  /\ \E ok \in BOOLEAN :
       IF ok
         THEN synth' = "loaded" /\ ppc' = "device_init" /\ UNCHANGED perr
         ELSE perr' = ErrSoundFont /\ ppc' = "thrown" /\ UNCHANGED synth
  /\ UNCHANGED <<device, events, nextIndex, timeSec, endTimeSec, calls, cbs,
                 elapsed, teardown, accesses>>

\* a device_init that forgets the synth when the device cannot be opened
PlayDeviceInitLeaks ==
  /\ ppc = "device_init"
  /\ \E ok \in BOOLEAN :
       IF ok
         THEN device' = "inited" /\ ppc' = "device_start" /\ UNCHANGED perr
         ELSE perr' = ErrDeviceOpen /\ ppc' = "thrown" /\ UNCHANGED device
  /\ nextIndex' = 0
  /\ timeSec' = 0
  /\ UNCHANGED <<synth, events, endTimeSec, calls, cbs, elapsed, teardown,
                 accesses>>

\* PlaybackState state; ma_device_init
PlayDeviceInit ==
  /\ ppc = "device_init"
  /\ \E ok \in BOOLEAN :
       IF ok
         THEN device' = "inited" /\ ppc' = "device_start"
              /\ UNCHANGED <<synth, perr, teardown>>
         ELSE synth' = "closed" /\ perr' = ErrDeviceOpen /\ ppc' = "thrown"
              /\ teardown' = Append(teardown, "tsf_close")
              /\ UNCHANGED device
  /\ nextIndex' = 0
  /\ timeSec' = 0
  /\ UNCHANGED <<events, endTimeSec, calls, cbs, elapsed, accesses>>

\* ma_device_start
PlayDeviceStart ==
  /\ ppc = "device_start"
  /\ \E ok \in BOOLEAN :
       IF ok
         THEN device' = "started" /\ ppc' = "poll"
              /\ UNCHANGED <<synth, perr, teardown>>
         ELSE device' = "uninit" /\ synth' = "closed"
              /\ teardown' = teardown \o <<"ma_device_uninit", "tsf_close">>
              /\ perr' = ErrDeviceStart /\ ppc' = "thrown"
  /\ UNCHANGED <<events, nextIndex, timeSec, endTimeSec, calls, cbs, elapsed,
                 accesses>>

\* data_callback(device, pOutput, pInput, frameCount), on the audio thread.
\* scale is <<>> when the buffer is left as rendered and <<factor>> when its
\* samples are multiplied by the factor; afterLoop tells that play had left
\* its poll loop and not yet stopped the device.
DataCallback(frameCount) ==
  /\ device = "started"
  /\ Len(cbs) < MaxCallbacks
  /\ LET u == Scale(tempoMap[1])
         t0 == timeSec
         t1 == t0 + frameCount
         last == dispatch_loop(events, nextIndex, t1, u)
         fade == ClockGe(t1, endTimeSec, u)
     IN  /\ calls' = calls \o [i \in 1..(last - nextIndex) |->
                                 synth_call(events[nextIndex + i])
                                   @@ [cb |-> Len(cbs) + 1]]
         /\ nextIndex' = last
         /\ timeSec' = t1
         /\ cbs' = Append(cbs, [t0 |-> t0, frameCount |-> frameCount,
                                t1 |-> t1, fade |-> fade,
                                afterLoop |-> ppc = "stop",
                                scale |-> IF fade
                                            THEN <<fade_scale(t0, frameCount,
                                                              endTimeSec, u)>>
                                            ELSE <<>>])
         /\ accesses' = accesses
              \cup {Acc("callback", "timeSec", "load"),
                    Acc("callback", "sampleRate", "load"),
                    Acc("callback", "nextIndex", "load"),
                    Acc("callback", "events", "load"),
                    Acc("callback", "synth", "load"),
                    Acc("callback", "timeSec", "store"),
                    Acc("callback", "endTimeSec", "load")}
              \cup (IF last > nextIndex
                      THEN {Acc("callback", "nextIndex", "store")} ELSE {})
  /\ UNCHANGED <<ppc, perr, synth, device, events, endTimeSec, elapsed,
                 teardown>>

\* a poll loop that rewinds the audio clock
PlayPollRewinds ==
  /\ ppc = "poll"
  /\ ppc' = "sleep"
  /\ timeSec' = 0
  /\ accesses' = accesses \cup {Acc("control", "timeSec", "load"),
                                Acc("control", "timeSec", "store")}
  /\ UNCHANGED <<perr, synth, device, events, nextIndex, endTimeSec, calls,
                 cbs, elapsed, teardown>>

\* the test of the while loop of play:
\* state.timeSec.load(relaxed) < state.endTimeSec
PlayPoll ==
  /\ ppc = "poll"
  /\ ppc' = IF ClockLt(timeSec, endTimeSec, Scale(tempoMap[1]))
              THEN "sleep" ELSE "stop"
  /\ accesses' = accesses \cup {Acc("control", "timeSec", "load"),
                                Acc("control", "endTimeSec", "load")}
  /\ UNCHANGED <<perr, synth, device, events, nextIndex, timeSec, endTimeSec,
                 calls, cbs, elapsed, teardown>>

\* the body of the while loop: sleep_for(30 ms), then
\* if (elapsed > state.endTimeSec + 10.0) break
PlaySleep ==
  /\ ppc = "sleep"
  /\ \E ms \in SleepMs :
       LET now == IF elapsed + ms > ElapsedCap THEN ElapsedCap
                  ELSE elapsed + ms
       IN  /\ elapsed' = now
           /\ ppc' = IF WallGt(now, endTimeSec, Scale(tempoMap[1]))
                       THEN "stop" ELSE "poll"
  /\ accesses' = accesses \cup {Acc("control", "endTimeSec", "load")}
  /\ UNCHANGED <<perr, synth, device, events, nextIndex, timeSec, endTimeSec,
                 calls, cbs, teardown>>

\* a teardown that closes the synth first, while the device still runs
PlayDeviceStopClosesSynthFirst ==
  /\ ppc = "stop"
  /\ synth' = "closed"
  /\ teardown' = Append(teardown, "tsf_close")
  /\ ppc' = "uninit"
  /\ UNCHANGED <<perr, device, events, nextIndex, timeSec, endTimeSec, calls,
                 cbs, elapsed, accesses>>

\* ma_device_stop
PlayDeviceStop ==
  /\ ppc = "stop"
  /\ device' = "stopped"
  /\ teardown' = Append(teardown, "ma_device_stop")
  /\ ppc' = "uninit"
  /\ UNCHANGED <<perr, synth, events, nextIndex, timeSec, endTimeSec, calls,
                 cbs, elapsed, accesses>>

\* ma_device_uninit
PlayDeviceUninit ==
  /\ ppc = "uninit"
  /\ device' = "uninit"
  /\ teardown' = Append(teardown, "ma_device_uninit")
  /\ ppc' = "close"
  /\ UNCHANGED <<perr, synth, events, nextIndex, timeSec, endTimeSec, calls,
                 cbs, elapsed, accesses>>

\* tsf_close; return
PlaySynthClose ==
  /\ ppc = "close"
  /\ synth' = "closed"
  /\ teardown' = Append(teardown, "tsf_close")
  /\ ppc' = "returned"
  /\ UNCHANGED <<perr, device, events, nextIndex, timeSec, endTimeSec, calls,
                 cbs, elapsed, accesses>>

\* the steps of the thread that called play
PlayControl ==
  \/ PlayBuildSchedule /\ UNCHANGED <<parseVars, vlqVars, schedVars>>
  \/ PlayLoadSynth /\ UNCHANGED <<parseVars, vlqVars, schedVars>>
  \/ PlayDeviceInit /\ UNCHANGED <<parseVars, vlqVars, schedVars>>
  \/ PlayDeviceStart /\ UNCHANGED <<parseVars, vlqVars, schedVars>>
  \/ PlayPoll /\ UNCHANGED <<parseVars, vlqVars, schedVars>>
  \/ PlaySleep /\ UNCHANGED <<parseVars, vlqVars, schedVars>>
  \/ PlayDeviceStop /\ UNCHANGED <<parseVars, vlqVars, schedVars>>
  \/ PlayDeviceUninit /\ UNCHANGED <<parseVars, vlqVars, schedVars>>
  \/ PlaySynthClose /\ UNCHANGED <<parseVars, vlqVars, schedVars>>

\* the steps of the audio thread of the device
PlayAudio ==
  \E frameCount \in FrameCounts :
    DataCallback(frameCount) /\ UNCHANGED <<parseVars, vlqVars, schedVars>>

PlayNext == PlayControl \/ PlayAudio

InitPlay == ParseIdle /\ VlqIdle /\ PlayInit

SpecPlay == InitPlay /\ [][PlayNext]_vars

\* the thread that called play keeps running; the device may stop calling
\* data_callback at any time
SpecPlayFair == InitPlay /\ [][PlayNext]_vars /\ WF_vars(PlayControl)

\* callback c is one whose window end covers event i: tSec <= t1
Covers(c, i) == TimeLe(events[i].tSec, cbs[c].t1, Scale(tempoMap[1]))

\* C1: over any sequence of callbacks, whatever their frame counts, the calls
\* made to the synthesis engine are the events of the schedule in cursor
\* order, each once, and event i is applied in callback c exactly when c is
\* the first callback whose window end t1 = t0 + frameCount / sampleRate
\* satisfies tSec <= t1.
RendererDelivery ==
  /\ \A c \in 1..Len(cbs) :
       /\ cbs[c].t0 = (IF c = 1 THEN 0 ELSE cbs[c - 1].t1)
       /\ cbs[c].t1 = cbs[c].t0 + cbs[c].frameCount
  /\ Len(calls) <= Len(events)
  /\ \A i \in 1..Len(calls) :
       /\ calls[i].fn = (IF events[i].on THEN "tsf_note_on" ELSE "tsf_note_off")
       /\ calls[i].ch = events[i].ch
       /\ calls[i].key = events[i].note
  /\ \A i \in 1..Len(events) : \A c \in 1..Len(cbs) :
       (i <= Len(calls) /\ calls[i].cb = c)
         <=> (Covers(c, i) /\ \A b \in 1..(c - 1) : ~Covers(b, i))

\* two events were due at 0.25 s = 11025 frames; the first callback, of 11024
\* frames, applied neither, and the second, whose window ended exactly at
\* their time, applied both, in schedule order
RendererDeliveryWitness ==
  /\ Len(cbs) = 2
  /\ cbs[1].t1 = 11024
  /\ cbs[2].t1 = 11025
  /\ Len(events) = 2
  /\ events[1].tSec = DFin(500000)
  /\ events[2].tSec = DFin(500000)
  /\ Len(calls) = 2
  /\ calls[1].cb = 2
  /\ calls[2].cb = 2

(***************************************************************************)
(* build_tempo_map and the tick-to-seconds conversions made with its       *)
(* result: midi::ticks_to_seconds (midi/tempo.cpp), which divides by the   *)
(* ppqn of the TempoMap, and the conversion of main.cpp, which divides by  *)
(* the ppqn of its own header                                              *)
(***************************************************************************)
\* h.ppqn of main.cpp: SMFHeader h{} is zero-initialised there, and ppqn is
\* assigned only in the PPQN branch of its parse_header
main_header_ppqn(division) ==
  IF division < 32768 THEN division % 32768 ELSE 0

\* ticks_to_seconds(tick, segs, ppqn) of main.cpp
main_ticks_to_seconds(tk, segs, ppqn) ==
  ticks_to_seconds(tk, [ppqn |-> ppqn, segments |-> segs])

TempoEvs == {TempoEv(t, u) : t \in {0, 1, 960}, u \in {600000, 250000}}

\* division 0xE250 selects SMPTE timing (-30 fps, 80 subframes)
TempoSongs ==
  {[header |-> header_of(1, 1, d), notes |-> <<>>, tempi |-> ts] :
     d \in {0, 2, 480, 57936}, ts \in SeqsUpTo(TempoEvs, MaxTempoEvents)}

TempoTicks == {0, 1, 960, 1920}

TempoInit ==
  /\ songIn \in TempoSongs
  /\ tempoMap = <<>>
  /\ schedRuns = <<>>
  /\ convs = <<>>

\* midi::ticks_to_seconds(tick, tempo)
TicksToSeconds(tk) ==
  /\ tempoMap # <<>>
  /\ Len(convs) < MaxConversions
  /\ convs' = Append(convs, [by |-> "midi", tick |-> U32(tk),
                             divisor |-> tempoMap[1].ppqn,
                             sec |-> ticks_to_seconds(U32(tk), tempoMap[1])])
  /\ UNCHANGED <<songIn, tempoMap, schedRuns>>

\* main.cpp: ticks_to_seconds(notes[i].tick, segs, h.ppqn)
MainTicksToSeconds(tk) ==
  /\ tempoMap # <<>>
  /\ Len(convs) < MaxConversions
  /\ LET ppqn == main_header_ppqn(songIn.header.division)
     IN  convs' = Append(convs,
                         [by |-> "main", tick |-> U32(tk), divisor |-> ppqn,
                          sec |-> main_ticks_to_seconds(U32(tk),
                                                        tempoMap[1].segments,
                                                        ppqn)])
  /\ UNCHANGED <<songIn, tempoMap, schedRuns>>

TempoNext ==
  \/ BuildTempoMap /\ UNCHANGED <<parseVars, vlqVars, playVars>>
  \/ \E tk \in TempoTicks :
       TicksToSeconds(tk) /\ UNCHANGED <<parseVars, vlqVars, playVars>>
  \/ \E tk \in TempoTicks :
       MainTicksToSeconds(tk) /\ UNCHANGED <<parseVars, vlqVars, playVars>>

InitTempo == ParseIdle /\ VlqIdle /\ TempoInit /\ PlayIdle

SpecTempo == InitTempo /\ [][TempoNext]_vars

\* C11: for every Song the segment list of the TempoMap is not empty, its
\* first segment is (startTick 0, startSec 0.0, 500000 us per quarter), and
\* the startTicks are strictly ascending: no two segments share one.
TempoMapInvariant ==
  tempoMap # <<>> =>
    LET segs == tempoMap[1].segments
    IN  /\ segs # <<>>
        /\ segs[1] = [startTick |-> U32(0), startSec |-> DFin(0),
                      usPerQN |-> 500000]
        /\ \A i, j \in 1..Len(segs) :
             i < j => U32Lt(segs[i].startTick, segs[j].startTick)

\* the tempo events of the Song that are neither out of order (an earlier
\* event of the list has a higher tick) nor duplicates (an earlier event has
\* the same tick)
RegularTempoEvents ==
  {i \in 1..Len(songIn.tempi) :
     \A j \in 1..(i - 1) : U32Lt(songIn.tempi[j].tick, songIn.tempi[i].tick)}

\* C12: out-of-order and duplicate tempo events of the Song produce no
\* segment of their own: the TempoMap has no more segments than the first one
\* and one per remaining event.  (build_tempo_map has no failing outcome.)
TempoAnomaliesDropped ==
  tempoMap # <<>> =>
    Len(tempoMap[1].segments) - 1 <= Cardinality(RegularTempoEvents)

\* C13: every segment appended for a tempo event starts at the startSec of
\* the segment before it plus the quarters between the two startTicks at the
\* tempo of the segment before, and the timeline is continuous at every
\* segment boundary: ticks_to_seconds(startTick) is the segment's startSec.
\* The tempo event (960, 600000) with ppqn 480 gives
\* [(0, 0.0, 500000), (960, 1.0, 600000)].
TempoAccumulation ==
  tempoMap # <<>> =>
    LET m == tempoMap[1]
        segs == m.segments
    IN  /\ \A k \in 2..Len(segs) :
             segs[k].startSec =
               DAdd(segs[k - 1].startSec,
                    quarter_seconds(U32Diff(segs[k].startTick,
                                            segs[k - 1].startTick),
                                    m.ppqn, segs[k - 1].usPerQN))
        /\ \A k \in 1..Len(segs) :
             ticks_to_seconds(segs[k].startTick, m) = segs[k].startSec
        /\ (m.ppqn = 480 /\ songIn.tempi = <<TempoEv(960, 600000)>>) =>
             segs = <<[startTick |-> U32(0), startSec |-> DFin(0),
                       usPerQN |-> 500000],
                      [startTick |-> U32(960), startSec |-> DFin(480000000),
                       usPerQN |-> 600000]>>

\* a <= b of IEEE doubles
DLe(a, b) == DLt(a, b) \/ DEq(a, b)

\* the index of the last segment whose startTick <= tk
LastSegmentAt(segs, tk) ==
  CHOOSE k \in 1..Len(segs) :
    /\ U32Le(segs[k].startTick, tk)
    /\ \A j \in 1..Len(segs) : U32Le(segs[j].startTick, tk) => j <= k

\* C14: ticks_to_seconds(tick, map) is startSec + (tick - startTick) / ppqn
\* * usPerQN * 1e-6 of the last segment whose startTick <= tick, also for a
\* tick beyond the last segment, and it is non-decreasing in tick.  With the
\* segments [(0, 0.0, 500000), (960, 1.0, 600000)] and ppqn 480, tick 1920
\* converts to 2.2 s.
TicksToSecondsCorrect ==
  tempoMap # <<>> =>
    LET m == tempoMap[1]
        segs == m.segments
        Mine == {i \in 1..Len(convs) : convs[i].by = "midi"}
    IN  /\ \A i \in Mine :
             LET seg == segs[LastSegmentAt(segs, convs[i].tick)]
             IN  convs[i].sec =
                   DAdd(seg.startSec,
                        quarter_seconds(U32Diff(convs[i].tick, seg.startTick),
                                        m.ppqn, seg.usPerQN))
        /\ \A i, j \in Mine :
             U32Le(convs[i].tick, convs[j].tick) =>
               DLe(convs[i].sec, convs[j].sec)
        /\ \A i \in Mine :
             (m.ppqn = 480 /\ songIn.tempi = <<TempoEv(960, 600000)>>
                /\ convs[i].tick = U32(1920)) =>
               convs[i].sec = DFin(1056000000)

\* C20: the TempoMap is built with ppqn 480 when the header selects SMPTE
\* timing and with header.ppqn when it selects PPQN, and every tick-to-seconds
\* conversion of the program divides by the ppqn the TempoMap was built with.
ConversionPpqnAgrees ==
  tempoMap # <<>> =>
    /\ tempoMap[1].ppqn =
         (IF songIn.header.division >= 32768 THEN 480
          ELSE songIn.header.division)
    /\ \A i \in 1..Len(convs) : convs[i].divisor = tempoMap[1].ppqn

\* clamp((endTimeSec - t0) / (t1 - t0), 0, 1) for the window of callback c
\* and a finite endTimeSec
ClampedTail(c) ==
  LET u == Scale(tempoMap[1])
      e == EndFrames(endTimeSec.v)
      num == e.q - cbs[c].t0 * u
      den == (cbs[c].t1 - cbs[c].t0) * u
  IN  IF num < 0 THEN Factor(0, 0, den)
      ELSE IF num > den \/ (num = den /\ e.r > 0) THEN Factor(den, 0, den)
      ELSE Factor(num, e.r, den)

\* 0 <= f <= 1
InUnitInterval(f) ==
  /\ f.den > 0
  /\ f.num >= 0
  /\ f.frac >= 0
  /\ f.num < f.den \/ (f.num = f.den /\ f.frac = 0)

\* C15: with endTimeSec the time of the last scheduled event plus the 2.0 s
\* tail, a buffer whose window ends before endTimeSec is left as rendered, one
\* whose window reaches it is multiplied by
\* clamp((endTimeSec - t0) / (t1 - t0), 0, 1), one whose window starts at or
\* after it is multiplied by 0, and the factor is always within [0, 1].
FadeFactor ==
  /\ ppc \notin {"idle", "entry"} =>
       endTimeSec = DAdd(IF events # <<>> THEN events[Len(events)].tSec
                         ELSE DFin(0),
                         Seconds(2, tempoMap[1]))
  /\ \A c \in 1..Len(cbs) :
       LET u == Scale(tempoMap[1])
       IN  /\ ClockLt(cbs[c].t1, endTimeSec, u) => cbs[c].scale = <<>>
           /\ ClockGe(cbs[c].t1, endTimeSec, u) =>
                cbs[c].scale = <<ClampedTail(c)>>
           /\ ClockGe(cbs[c].t0, endTimeSec, u) =>
                cbs[c].scale = <<Factor(0, 0, cbs[c].frameCount * u)>>
           /\ cbs[c].scale # <<>> => InUnitInterval(cbs[c].scale[1])

\* after a first buffer left as rendered, the second buffer, whose window
\* [11024, 99224] reaches endTimeSec = 2.0 s = 88200 frames, was multiplied by
\* (88200 - 11024) / 88200, and the third, which starts after it, by 0
FadeFactorWitness ==
  /\ Len(cbs) = 3
  /\ endTimeSec.k = "fin"
  /\ EndFrames(endTimeSec.v) = [q |-> 88200 * Scale(tempoMap[1]), r |-> 0]
  /\ cbs[1].scale = <<>>
  /\ cbs[2].t0 = 11024
  /\ cbs[2].t1 = 99224
  /\ cbs[2].scale = <<Factor(77176 * Scale(tempoMap[1]), 0,
                             88200 * Scale(tempoMap[1]))>>
  /\ cbs[3].scale = <<Factor(0, 0, cbs[3].frameCount * Scale(tempoMap[1]))>>

\* C16: once the device has started, the poll loop of play always ends,
\* whatever the callbacks do, also when no callback ever runs again.
DriverTerminates ==
  (device = "started" /\ ppc \in {"poll", "sleep"})
    ~> (ppc \notin {"poll", "sleep"})

\* C17: play has returned normally only when the audio clock has reached
\* endTimeSec and every scheduled event has been dispatched; the only other
\* end of play is a thrown error.
PlayReturnsAfterCompletion ==
  /\ ppc = "returned" =>
       /\ perr = ""
       /\ ClockGe(timeSec, endTimeSec, Scale(tempoMap[1]))
       /\ nextIndex = Len(events)
       /\ Len(calls) = Len(events)
  /\ ppc = "thrown" => perr \in {ErrSoundFont, ErrDeviceOpen, ErrDeviceStart}

\* the fields of PlaybackState that both threads have accessed and that some
\* thread has stored to, since the device was started
SharedMutable ==
  {f \in {a.field : a \in accesses} :
     /\ \E a \in accesses : a.field = f /\ a.thread = "control"
     /\ \E a \in accesses : a.field = f /\ a.thread = "callback"
     /\ \E a \in accesses : a.field = f /\ a.kind = "store"}

\* C18: from device start until device stop only the callback thread writes
\* the audio clock and the control thread only reads it; the control thread
\* never touches the cursor, nobody modifies the events or endTimeSec, and
\* the clock is the only mutable value the two threads share.
SingleWriter ==
  /\ [](\A a \in accesses :
          /\ a.kind = "store" =>
               a.thread = "callback" /\ a.field \in {"timeSec", "nextIndex"}
          /\ a.thread = "control" =>
               a.kind = "load" /\ a.field \in {"timeSec", "endTimeSec"})
  /\ [](SharedMutable \subseteq {"timeSec"})
  /\ [][device = "started" =>
          /\ events' = events
          /\ endTimeSec' = endTimeSec
          /\ timeSec' # timeSec => Len(cbs') = Len(cbs) + 1
          /\ nextIndex' # nextIndex => Len(cbs') = Len(cbs) + 1]_vars

\* the callback has advanced the clock and the cursor, and the control thread
\* has polled the clock and is still in its loop
SingleWriterWitness ==
  /\ device = "started"
  /\ ppc = "sleep"
  /\ timeSec > 0
  /\ nextIndex > 0
  /\ SharedMutable = {"timeSec"}
  /\ Acc("callback", "nextIndex", "store") \in accesses

\* how many times the release call named f has been made
Releases(f) == Cardinality({i \in 1..Len(teardown) : teardown[i] = f})

\* C19: a failed bank load leaves the device unopened, a failed open leaves it
\* unstarted, a failed start leaves the poll loop unentered; each raises one
\* error, after which nothing is dispatched and nothing more happens, and the
\* synth and the device acquired so far have been released exactly once.
SetupFailures ==
  /\ [](perr # "" => ppc = "thrown")
  /\ [](ppc = "thrown" =>
          /\ perr \in {ErrSoundFont, ErrDeviceOpen, ErrDeviceStart}
          /\ calls = <<>>
          /\ cbs = <<>>
          /\ elapsed = 0
          /\ accesses = {}
          /\ Releases("ma_device_stop") = 0
          /\ perr = ErrSoundFont =>
               /\ synth = "none"
               /\ device = "none"
               /\ teardown = <<>>
          /\ perr = ErrDeviceOpen =>
               /\ synth = "closed"
               /\ device = "none"
               /\ Releases("tsf_close") = 1
               /\ Releases("ma_device_uninit") = 0
          /\ perr = ErrDeviceStart =>
               /\ synth = "closed"
               /\ device = "uninit"
               /\ teardown = <<"ma_device_uninit", "tsf_close">>)
  /\ [][ppc # "thrown"]_vars

\* the device was opened and failed to start, with events scheduled
SetupFailuresWitness ==
  /\ ppc = "thrown"
  /\ perr = ErrDeviceStart
  /\ events # <<>>
  /\ teardown = <<"ma_device_uninit", "tsf_close">>

(***************************************************************************)
(* Track framing and End-of-Track                                          *)
(***************************************************************************)
\* the length field of the chunk header at offset `at` of the file
DeclaredLength(at) == be32(file, at + 4).val

\* the number of notes and of tempo events the first n iterations emitted
RECURSIVE SumNotes(_)
SumNotes(n) == IF n = 0 THEN 0 ELSE iters[n].notes + SumNotes(n - 1)

RECURSIVE SumTempi(_)
SumTempi(n) == IF n = 0 THEN 0 ELSE iters[n].tempi + SumTempi(n - 1)

\* C21: once a chunk is decoded the outer cursor is at chunkDataStart + the
\* declared length, however the walk ended; an End-of-Track iteration is the
\* last one of its track, the notes and tempo events are those emitted up to
\* it, and the next chunk starts right behind the declared length.
TrackFraming ==
  /\ \A k \in 1..Len(chunks) :
       /\ DeclaredLength(chunks[k].at) = U32(chunks[k].len)
       /\ k < Len(chunks) => chunks[k + 1].at = chunks[k].at + 8 + chunks[k].len
       /\ k = Len(chunks) => r_off = chunks[k].at + 8 + chunks[k].len
       /\ chunks[k].at = IF k = 1 THEN 14
                         ELSE chunks[k - 1].at + 8 + chunks[k - 1].len
  /\ \A i \in 1..Len(iters) :
       iters[i].brk =>
         /\ iters[i].ok
         /\ \A j \in 1..Len(iters) : j > i => iters[j].trk > iters[i].trk
         /\ pc # "error" => trk > iters[i].trk
  /\ pc \in {"walk", "tracks", "done"} =>
       /\ Len(notes) = SumNotes(Len(iters))
       /\ Len(tempi) = SumTempi(Len(iters))

\* a two-track file is decoded whose first track has a NoteOn behind its
\* End-of-Track: that note is not emitted, the note of the second track is
TrackFramingWitness ==
  /\ pc = "done"
  /\ Len(chunks) = 2
  /\ SubSeqFrom(file, 22, 8) = FragEndOfTrack \o FragNoteOn
  /\ iters[1].brk
  /\ iters[1].off = 4
  /\ chunks[2].at = 30
  /\ Len(iters) = 2
  /\ iters[2].trk = 1
  /\ song[1].notes = <<[tick |-> U32(0), ch |-> 0, note |-> 64, vel |-> 127,
                        type |-> "NoteOn"]>>

(***************************************************************************)
(* Order of the tempo events                                               *)
(***************************************************************************)
\* the tempo events the segments after the first one were appended for
SegmentEvents ==
  [k \in 1..(Len(tempoMap[1].segments) - 1) |->
     [tick |-> tempoMap[1].segments[k + 1].startTick,
      usPerQN |-> tempoMap[1].segments[k + 1].usPerQN]]

\* the events of s at tick tk, in the order of s
AtTick(s, tk) == LET Here(e) == e.tick = tk IN SelectSeq(s, Here)

\* C22: the tempo events are processed in ascending tick order and events of
\* one tick keep their decode order, so the tempo in force from a tick on is
\* that of the event decoded last among those of the tick.
StableTempoOrdering ==
  tempoMap # <<>> =>
    /\ \A i, j \in 1..Len(SegmentEvents) :
         i < j => U32Le(SegmentEvents[i].tick, SegmentEvents[j].tick)
    /\ \A e \in Range(songIn.tempi) :
         /\ AtTick(SegmentEvents, e.tick) = AtTick(songIn.tempi, e.tick)
         /\ LET last == AtTick(songIn.tempi, e.tick)
                seg == tempoMap[1].segments[LastSegmentAt(tempoMap[1].segments,
                                                          e.tick)]
            IN  seg.usPerQN = last[Len(last)].usPerQN

(***************************************************************************)
(* Notes left sounding                                                     *)
(***************************************************************************)
\* s without its first element equal to x
RECURSIVE RemoveFirst(_, _)
RemoveFirst(s, x) ==
  IF s = <<>> THEN <<>>
  ELSE IF Head(s) = x THEN Tail(s)
  ELSE <<Head(s)>> \o RemoveFirst(Tail(s), x)

\* the voices sounding after the first n calls: tsf_note_on starts a voice of
\* (channel, key), tsf_note_off releases the oldest voice of (channel, key)
RECURSIVE Sounding(_)
Sounding(n) ==
  IF n = 0 THEN <<>>
  ELSE LET before == Sounding(n - 1)
           voice == <<calls[n].ch, calls[n].key>>
       IN  IF calls[n].fn = "tsf_note_on" THEN Append(before, voice)
           ELSE RemoveFirst(before, voice)

\* each NoteOn of the Song is followed, in decode order, by a NoteOff of the
\* same channel and note at a tick >= its own
EveryNoteOnReleased ==
  \A i \in 1..Len(songIn.notes) :
    songIn.notes[i].type = "NoteOn" =>
      \E j \in (i + 1)..Len(songIn.notes) :
        /\ songIn.notes[j].type = "NoteOff"
        /\ songIn.notes[j].ch = songIn.notes[i].ch
        /\ songIn.notes[j].note = songIn.notes[i].note
        /\ U32Le(songIn.notes[i].tick, songIn.notes[j].tick)

\* C23: for a Song in which every NoteOn is followed by its NoteOff, no
\* (channel, note) is left sounding in the synth once the callbacks have
\* dispatched the whole schedule.
NoHangingNotes ==
  (/\ ppc \notin {"idle", "entry"}
   /\ EveryNoteOnReleased
   /\ Len(calls) = Len(events)) => Sounding(Len(calls)) = <<>>

(***************************************************************************)
(* The clock and the cursor of the renderer                                *)
(***************************************************************************)
\* the scheduled events whose time is <= the audio clock
DueEvents ==
  {i \in 1..Len(events) : TimeLe(events[i].tSec, timeSec, Scale(tempoMap[1]))}

\* C24: each callback advances the audio clock by exactly its frameCount (in
\* frames of 1 / sampleRate s) and nothing else changes it, so it never
\* decreases; the cursor never decreases and never exceeds the length of the
\* schedule; after each callback the cursor is the number of scheduled events
\* whose time is <= the clock.
RendererMonotone ==
  /\ [](nextIndex <= Len(events))
  /\ [](cbs # <<>> =>
          /\ nextIndex = Cardinality(DueEvents)
          /\ timeSec = cbs[Len(cbs)].t1
          /\ \A c \in 1..Len(cbs) : cbs[c].t1 = cbs[c].t0 + cbs[c].frameCount)
  /\ [][/\ timeSec' >= timeSec
        /\ nextIndex' >= nextIndex
        /\ Len(cbs') = Len(cbs) + 1 =>
             /\ timeSec' = timeSec + cbs'[Len(cbs')].frameCount
             /\ cbs'[Len(cbs')].t0 = timeSec
        /\ Len(cbs') = Len(cbs) => timeSec' = timeSec /\ nextIndex' = nextIndex]_vars

\* a first callback of 1 frame applied the event due at 0 s and a second one
\* of 11024 frames the event due at 0.25 s, at the very end of its window
RendererMonotoneWitness ==
  /\ Len(cbs) = 2
  /\ cbs[1].frameCount = 1
  /\ cbs[2].frameCount = 11024
  /\ timeSec = 11025
  /\ Len(events) = 2
  /\ events[2].tSec = DFin(500000)
  /\ nextIndex = 2
  /\ Len(calls) = 2
  /\ calls[1].cb = 1
  /\ calls[2].cb = 2

(***************************************************************************)
(* Meta and SysEx events                                                   *)
(***************************************************************************)
\* C25 (step part): what one successful iteration on a meta or SysEx event
\* emits and consumes.  The status byte is tr[start + 1]; len is the VLQ
\* behind the meta type (meta) or behind the status byte (SysEx).
MetaHandlingStep ==
  (pc = "walk" /\ tr_off < Len(tr) /\ pc' # "error") =>
    LET it == iters'[Len(iters')]
        metaType == tr[it.start + 2]
        mlen == read_vlq(tr, it.start + 2)
        slen == read_vlq(tr, it.start + 1)
        b(k) == tr[mlen.off + k]
        value == b(1) * 65536 + b(2) * 256 + b(3)
    IN  /\ (it.status = 255 /\ metaType = 81 /\ mlen.val = 3) =>
             /\ tempi' = Append(tempi, [tick |-> tick', usPerQN |-> value])
             /\ value < 16777216
             /\ notes' = notes
             /\ tr_off' = mlen.off + 3
             /\ trk' = trk
        /\ (it.status = 255 /\ metaType = 81 /\ mlen.val # 3) =>
             /\ tempi' = tempi
             /\ notes' = notes
             /\ tr_off' = mlen.off + mlen.val
             /\ trk' = trk
        /\ (it.status = 255 /\ metaType \notin {47, 81}) =>
             /\ tempi' = tempi
             /\ notes' = notes
             /\ tr_off' = mlen.off + mlen.val
             /\ trk' = trk
        /\ it.status \in {240, 247} =>
             /\ tempi' = tempi
             /\ notes' = notes
             /\ tr_off' = slen.off + slen.val
             /\ trk' = trk

\* C25: a 0x51 meta event of declared length 3 emits one TempoEv at the
\* current tick with the 24-bit big-endian value of its three bytes; a 0x51
\* event of another length, every other meta type but 0x2F, and a SysEx event
\* emit nothing and advance the cursor by the declared length.
MetaHandling ==
  /\ [](\A i \in 1..Len(tempi) : tempi[i].usPerQN < 16777216)
  /\ [][MetaHandlingStep]_vars

\* a 0x51 event of length 2 was skipped, then a 0x51 event of length 3 gave
\* the one tempo event 0x0927C0 = 600000
MetaHandlingWitness ==
  /\ pc = "done"
  /\ file = HeaderBytes(0, 1, 480)
              \o ChunkBytes(FragTempoLen2 \o FragTempo, 13)
  /\ song[1].tempi = <<[tick |-> U32(0), usPerQN |-> 600000]>>
  /\ song[1].notes = <<>>
  /\ Len(iters) = 2

(***************************************************************************)
(* Decode order                                                            *)
(***************************************************************************)
\* the offset of the file behind the chunks walked so far
BehindChunks ==
  IF chunks = <<>> THEN 14
  ELSE chunks[Len(chunks)].at + 8 + chunks[Len(chunks)].len

\* iteration i is the first one of its track
FirstOfTrack(i) == i = 1 \/ iters[i - 1].trk # iters[i].trk

\* C26 (state part): the chunks are walked in index order, as many as the
\* header counts and no further; every iteration stays inside its chunk, and
\* the first one of a track counts its tick from 0
DecodeOrderState ==
  /\ Len(chunks) <= header.nTracks
  /\ pc \in {"tracks", "walk", "done"} => r_off = BehindChunks
  /\ pc = "done" =>
       /\ Len(chunks) = header.nTracks
       /\ trk = header.nTracks
       /\ r_off <= Len(file)
       /\ song = <<[header |-> header, notes |-> notes, tempi |-> tempi]>>
  /\ \A i \in 1..Len(iters) :
       /\ iters[i].trk < Len(chunks)
       /\ i > 1 => iters[i - 1].trk <= iters[i].trk
       /\ iters[i].ok => iters[i].off <= chunks[iters[i].trk + 1].len
       /\ (FirstOfTrack(i) /\ iters[i].haveFirst) =>
            /\ iters[i].from = 0
            /\ iters[i].tick =
                 U32(read_vlq(file, chunks[iters[i].trk + 1].at + 8).val)

\* C26 (step part): an iteration belongs to the chunk walked last and appends
\* what it emits to notes and tempi, with its tick; a new chunk starts with
\* tick 0 behind the chunk before
DecodeOrderStep ==
  /\ Len(iters') = Len(iters) + 1 =>
       LET it == iters'[Len(iters')]
       IN  /\ it.trk = Len(chunks) - 1
           /\ it.trk = trk
           /\ pc' # "error" =>
                /\ Len(notes') = Len(notes) + it.notes
                /\ Len(tempi') = Len(tempi) + it.tempi
                /\ SubSeq(notes', 1, Len(notes)) = notes
                /\ SubSeq(tempi', 1, Len(tempi)) = tempi
                /\ \A k \in (Len(notes) + 1)..Len(notes') :
                     notes'[k].tick = tick'
                /\ \A k \in (Len(tempi) + 1)..Len(tempi') :
                     tempi'[k].tick = tick'
  /\ Len(iters') = Len(iters) => notes' = notes /\ tempi' = tempi
  /\ Len(chunks') = Len(chunks) + 1 =>
       /\ Len(chunks) = trk
       /\ chunks'[Len(chunks')].at = BehindChunks
       /\ tick' = U32(0)
       /\ tr_off' = 0

\* C26: parse_smf walks header.nTracks chunks in index order and reads
\* nothing behind the last one; notes and tempi hold the events of track 0,
\* then those of track 1, each track's in arrival order; the tick restarts at
\* 0 for every track.
DecodeOrder == []DecodeOrderState /\ [][DecodeOrderStep]_vars

\* the first track gave a tempo event and a NoteOff at tick 128, the second a
\* NoteOn at tick 0, listed behind the NoteOff
DecodeOrderWitness ==
  /\ pc = "done"
  /\ file = HeaderBytes(1, 2, 480) \o ChunkBytes(FragTempo \o FragNoteOff, 12)
              \o ChunkBytes(FragNoteOn, 4)
  /\ song[1].tempi = <<[tick |-> U32(0), usPerQN |-> 600000]>>
  /\ song[1].notes =
       <<[tick |-> U32(128), ch |-> 3, note |-> 64, vel |-> 64, type |-> "NoteOff"],
         [tick |-> U32(0), ch |-> 0, note |-> 64, vel |-> 127, type |-> "NoteOn"]>>
  /\ r_off = Len(file)

(***************************************************************************)
(* Order of the teardown                                                   *)
(***************************************************************************)
\* the positions of the call named f in the teardown
TeardownAt(f) == {i \in 1..Len(teardown) : teardown[i] = f}

\* C27: the synth is closed only when the device has been stopped and
\* uninitialised or was never started, so every callback runs with the synth
\* loaded; a callback that runs after play left its poll loop, with the clock
\* at or past endTimeSec, dispatches nothing and scales its buffer to silence.
ShutdownOrdering ==
  /\ [](device \in {"inited", "started", "stopped"} => synth = "loaded")
  /\ [](synth = "closed" => device \in {"none", "uninit"})
  /\ [](\A i \in TeardownAt("tsf_close") :
          /\ \A j \in TeardownAt("ma_device_stop") : j < i
          /\ \A j \in TeardownAt("ma_device_uninit") : j < i
          /\ device = "none" \/ TeardownAt("ma_device_uninit") # {})
  /\ [](\A c \in 1..Len(cbs) :
          (cbs[c].afterLoop
             /\ ClockGe(cbs[c].t0, endTimeSec, Scale(tempoMap[1]))) =>
            /\ \A i \in 1..Len(calls) : calls[i].cb # c
            /\ cbs[c].scale =
                 <<Factor(0, 0, cbs[c].frameCount * Scale(tempoMap[1]))>>)
  /\ [][Len(cbs') = Len(cbs) + 1 =>
          /\ synth = "loaded"
          /\ synth' = "loaded"
          /\ device = "started"]_vars

\* the one event was applied by a callback of 2 s, which reached endTimeSec;
\* play left its loop, and a further callback ran before the device stopped
ShutdownOrderingWitness ==
  /\ ppc = "returned"
  /\ teardown = <<"ma_device_stop", "ma_device_uninit", "tsf_close">>
  /\ Len(events) = 1
  /\ Len(cbs) = 2
  /\ ~cbs[1].afterLoop
  /\ cbs[2].afterLoop
  /\ ClockGe(cbs[2].t0, endTimeSec, Scale(tempoMap[1]))
  /\ Len(calls) = 1
  /\ calls[1].cb = 1

(***************************************************************************)
(* Tick accumulation                                                       *)
(***************************************************************************)
\* a + b without the reduction modulo 2^32: the high half is left to grow
WideAdd(a, b) ==
  LET lo == a.lo + b.lo
  IN  [hi |-> a.hi + b.hi + (lo \div 65536), lo |-> lo % 65536]

\* the delta-time iteration i read, decoded once more from the bytes of its
\* chunk
DeltaOf(i) ==
  LET c == chunks[iters[i].trk + 1]
  IN  read_vlq(SubSeqFrom(file, c.at + 8, c.len), iters[i].from)

\* the sum of the delta-times read in the track of iteration i, up to it
RECURSIVE DeltaSum(_)
DeltaSum(i) ==
  IF i = 0 THEN U32(0)
  ELSE LET d == IF DeltaOf(i).ok THEN U32(DeltaOf(i).val) ELSE U32(0)
       IN  IF FirstOfTrack(i) THEN d ELSE WideAdd(DeltaSum(i - 1), d)

\* C28: in every iteration that decodes an event the tick given to the event
\* is the sum of the delta-times read so far in its track, so the ticks of a
\* track never decrease in arrival order, whatever the deltas.
TickAccumulation ==
  /\ \A i \in 1..Len(iters) : iters[i].ok => iters[i].tick = DeltaSum(i)
  /\ \A i, j \in 1..Len(iters) :
       (i < j /\ iters[i].trk = iters[j].trk /\ iters[i].ok /\ iters[j].ok) =>
         U32Le(iters[i].tick, iters[j].tick)

(***************************************************************************)
(* The ppqn of the TempoMap of a decoded Song                              *)
(***************************************************************************)
\* C29: every TempoMap built from a Song that parse_smf returned has
\* ppqn >= 1, so the conversions divide by a nonzero ppqn and give finite
\* times, also when the division field of the header is 0x0000.
DecodedPpqnPositive ==
  pc = "done" =>
    \A m \in build_tempo_map(song[1]) :
      /\ m.ppqn >= 1
      /\ \A k \in 1..Len(m.segments) : m.segments[k].startSec.k = "fin"
      /\ ticks_to_seconds(U32(0), m).k = "fin"
      /\ ticks_to_seconds(U32(1), m).k = "fin"

(***************************************************************************)
(* Termination of the decoding                                             *)
(***************************************************************************)
\* offsets at the start and near the end of a buffer, where reads fail
EdgeOffsets(d) == {0} \cup {o \in 0..Len(d) : o + 4 >= Len(d)}

\* a u8, be16, be32 or skip that fails on buffer d leaves the position as it was
FailedReadsKeepPosition(d) ==
  \A o \in EdgeOffsets(d) :
    /\ ~u8(d, o).ok => u8(d, o).off = o
    /\ ~be16(d, o).ok => be16(d, o).off = o
    /\ ~be32(d, o).ok => be32(d, o).off = o
    /\ \A n \in {0, 1, 3, Len(d) - o, Len(d) - o + 1, 128} :
         /\ ~skip(d, o, n).ok => skip(d, o, n).off = o
         /\ ~skip32(d, o, U32(n)).ok => skip32(d, o, U32(n)).off = o
    /\ ~skip32(d, o, [hi |-> 1, lo |-> 0]).ok
    /\ skip32(d, o, [hi |-> 1, lo |-> 0]).off = o

\* C30 (state part): failed reads and skips leave the position unchanged; an
\* iteration that neither fails nor ends the track advances the track cursor
\* by two bytes or more, and no iteration leaves it before where it began;
\* parse_smf has ended with a Song or with an error, never both
DecodingState ==
  /\ FailedReadsKeepPosition(file)
  /\ FailedReadsKeepPosition(tr)
  /\ \A i \in 1..Len(iters) :
       /\ iters[i].at >= iters[i].from
       /\ iters[i].ok => iters[i].at = iters[i].off
       /\ (iters[i].ok /\ ~iters[i].brk) => iters[i].off >= iters[i].from + 2
       /\ ~iters[i].ok => i = Len(iters) /\ pc = "error"
  /\ tr_off <= Len(tr)
  /\ r_off <= Len(file)
  /\ pc = "done" => song # <<>> /\ err = ""
  /\ pc = "error" => song = <<>> /\ err # ""

\* C30 (step part): the cursors never move back, and every step ends the
\* decoding, ends a track, begins a chunk or advances the track cursor
DecodingStep ==
  /\ r_off' >= r_off
  /\ Len(chunks') = Len(chunks) => tr_off' >= tr_off
  /\ \/ pc' \in {"done", "error"}
     \/ pc = "header" /\ r_off' > r_off
     \/ trk' > trk
     \/ Len(chunks') > Len(chunks) /\ r_off' > r_off
     \/ tr_off' >= tr_off + 2

\* C30: decoding terminates on every input: each iteration of the track walk
\* fails, stops at End-of-Track or advances the track cursor by a delta byte
\* and a status or data byte at least; a failed read or skip leaves the
\* position unchanged; the position never decreases; parse_smf ends with a
\* Song or an error.
DecodingTerminates ==
  /\ []DecodingState
  /\ [][DecodingStep]_vars
  /\ <>(pc \in {"done", "error"})

\* a delta-time was cut off behind its first byte: the u8 of the second byte
\* failed at the position the first one had advanced to, and parse_smf ended
\* with that error
DecodingTerminatesWitness ==
  /\ pc = "error"
  /\ err = EofU8
  /\ Len(iters) = 2
  /\ iters[1].ok
  /\ ~iters[2].ok
  /\ ~iters[2].haveFirst
  /\ iters[2].at = iters[2].from + 1
  /\ iters[2].at = Len(tr)
  /\ tr_off = iters[2].from

====
